---- MODULE Spec2Model ----
(***************************************************************************)
(* A model of the Bill Splitter: the DataManager store (participants and   *)
(* bills, with its mutating operations, export and import) and the         *)
(* CalculationEngine (balances and the greedy settlement loop).            *)
(*                                                                         *)
(* Conventions.                                                            *)
(*  - Money is counted in cents.  Shares (amount / k) are exact rationals, *)
(*    held as integers in units of 1/Scale cent; floating-point rounding   *)
(*    is not modelled.                                                     *)
(*  - A Date is its instant (an integer); an ISO string is the record      *)
(*    [iso |-> instant] that Date.toISOString produces and new Date(..)    *)
(*    parses.  Any other string parses to the Invalid Date, whose time     *)
(*    value is NaN and on which toISOString throws a RangeError.           *)
(*  - Arguments that the code type-tests (typeof, Array.isArray,           *)
(*    Number.isInteger) are tagged JavaScript values, see JsNum .. JsArr.  *)
(*  - Bill fields that reach the store have the type the code expects      *)
(*    (numbers, strings, boolean arrays, dates); their VALUES are not      *)
(*    constrained (an index may be out of range, a mask of any length).    *)
(*    An imported bills array may also hold null entries.                  *)
(*  - JavaScript arrays are 1-based sequences here: index i of the code is *)
(*    position i + 1.                                                      *)
(***************************************************************************)
EXTENDS Integers, Sequences, FiniteSets, TLC

VARIABLES
    participantCount,   \* DataManager.participantCount
    participantNames,   \* DataManager.participantNames
    bills,              \* DataManager.bills
    isGrouped,          \* DataManager.isGrouped
    events,             \* the notifyListeners calls of the last operation, in order
    ret,                \* the last operation: its name, arguments and return value
    nextId,             \* the ids generateId has handed out so far
    clock,              \* the operations called so far; also the wall clock
    exported,           \* the last snapshot exportData returned
    shared,             \* per bill of exported: the position in bills of the bill
                        \* whose participants array is the same array, or 0
    listeners,          \* DataManager.listeners: per event, the subscribed callbacks
    delivered,          \* the callbacks the last operation invoked, in order
    raised,             \* whether an exception left a notifyListeners call of it
    pc,                 \* CalculationEngine: where calculateResults is
    results,            \* calculateResults: totalSpent, totalOwed, balances, totalAmount
    argBalances,        \* generatePaymentInstructions: its argument balances
    argNames,           \* generatePaymentInstructions: its argument participantNames
    creditors,          \* generatePaymentInstructions: creditors
    debtors,            \* generatePaymentInstructions: debtors
    creditorIndex,      \* generatePaymentInstructions: creditorIndex
    debtorIndex,        \* generatePaymentInstructions: debtorIndex
    instructions,       \* generatePaymentInstructions: instructions
    billsTable,         \* the page: the headers and rows of the bills table
    resultsSection,     \* the page: the summary and the result cards
    timers,             \* the setTimeout callbacks pending: when each is due
    now                 \* the time the page's timers run on, in ms

storeVars == <<participantCount, participantNames, bills, isGrouped>>
callVars == <<events, ret, nextId, clock, exported, shared, listeners, delivered, raised>>
engineVars == <<pc, results, argBalances, argNames, creditors, debtors, creditorIndex,
               debtorIndex, instructions>>
pageVars == <<billsTable, resultsSection, timers, now>>
vars == <<participantCount, participantNames, bills, isGrouped,
          events, ret, nextId, clock, exported, shared, listeners, delivered, raised,
          pc, results, argBalances, argNames, creditors, debtors, creditorIndex, debtorIndex,
          instructions, billsTable, resultsSection, timers, now>>

(***************************************************************************)
(* Bounds of the model.                                                    *)
(***************************************************************************)
\* The number of DataManager calls in a run.
MaxOps == 2
\* The longest bill list addBill is called on.
MaxBills == 5

(***************************************************************************)
(* Program constants.                                                      *)
(***************************************************************************)
MinParticipants == 2
MaxParticipants == 20
\* new Date('2024-01-01'), the instant the model's clock counts from.
DefaultDate == 0

(***************************************************************************)
(* JavaScript values at the API boundary.                                  *)
(***************************************************************************)
\* The number n.
JsNum(n) == [type |-> "number", val |-> n, half |-> FALSE]
\* The number n + 0.5: a number that is not an integer.
JsHalf(n) == [type |-> "number", val |-> n, half |-> TRUE]
JsStr(s) == [type |-> "string", str |-> s]
JsArr(a) == [type |-> "array", arr |-> a]
JsBool(b) == [type |-> "boolean", bool |-> b]
Undefined == [type |-> "undefined"]
Null == [type |-> "null"]
\* The object {}.
EmptyObject == [f \in {} |-> f]

\* obj.field: undefined when the object has no such property.
Get(obj, field) == IF field \in DOMAIN obj THEN obj[field] ELSE Undefined

NumberIsInteger(x) == x.type = "number" /\ ~x.half

\* x >= n and x <= n for a JavaScript value x and an integer n (false unless x
\* is a number; val + 0.5 >= n iff val >= n, val + 0.5 <= n iff val < n).
JsGe(x, n) == x.type = "number" /\ x.val >= n
JsLe(x, n) == x.type = "number" /\ (IF x.half THEN x.val < n ELSE x.val <= n)

\* `Participant ${k}`
Placeholder(k) == "Participant " \o ToString(k)

\* new Date(): the current instant.
Now == DefaultDate + clock + 1

\* The Invalid Date: the Date that new Date(..) builds from a string it cannot
\* parse.  It is an instant no clock reading equals.
InvalidDate == DefaultDate - 1

\* date.toISOString(), for a valid date.
toISOString(date) == [iso |-> date]
\* Whether date.toISOString() throws (RangeError: Invalid time value).
toISOStringThrows(date) == date = InvalidDate

\* new Date(isoString)
NewDate(isoString) == IF "iso" \in DOMAIN isoString THEN isoString.iso ELSE InvalidDate

(***************************************************************************)
(* DataManager: change notification.                                       *)
(*                                                                         *)
(* A callback is [id, throws]: who it is, and whether calling it throws.   *)
(* A callback with a field removes = [event, id] calls removeEventListener *)
(* for the callback id of that event when it is called.                    *)
(***************************************************************************)
\* The keys of this.listeners.
EventNames == {"dataChanged", "participantChanged", "billChanged"}

\* this.listeners as the constructor leaves it, and nothing delivered yet.
NoListeners ==
    /\ listeners = [event \in EventNames |-> <<>>]
    /\ delivered = <<>>
    /\ raised = FALSE

\* this.listeners[event].indexOf(callback): 0-based, or -1.
indexOf(cbs, callback) ==
    IF \E i \in 1..Len(cbs) : cbs[i] = callback
    THEN (CHOOSE i \in 1..Len(cbs) :
             cbs[i] = callback /\ \A j \in 1..(i - 1) : cbs[j] # callback) - 1
    ELSE -1

\* removeEventListener(event, callback), on the listeners ls.
removeEventListener(ls, event, callback) ==
    IF event \in EventNames /\ indexOf(ls[event], callback) > -1
    THEN LET index == indexOf(ls[event], callback)
         IN [ls EXCEPT ![event] = SubSeq(@, 1, index) \o SubSeq(@, index + 2, Len(@))]
    ELSE ls

\* The listeners after callback has been called.
Call(ls, callback) ==
    IF "removes" \in DOMAIN callback
    THEN LET cbs == ls[callback.removes.event]
             found == {i \in 1..Len(cbs) : cbs[i].id = callback.removes.id}
         IN IF found = {} THEN ls
            ELSE removeEventListener(ls, callback.removes.event,
                                     cbs[CHOOSE i \in found : \A j \in found : i <= j])
    ELSE ls

\* array.forEach from index k on: it visits the indices below the length the
\* array had at the start, each as the array is when its turn comes, and passes
\* over an index the array no longer has.
RECURSIVE forEach(_, _, _, _)
forEach(ls, event, k, len) ==
    IF k >= len THEN [calls |-> <<>>, ls |-> ls]
    ELSE IF k >= Len(ls[event]) THEN forEach(ls, event, k + 1, len)
    ELSE LET callback == ls[event][k + 1]
             rest == forEach(Call(ls, callback), event, k + 1, len)
         IN [calls |-> <<[event |-> event, id |-> callback.id]>> \o rest.calls,
             ls |-> rest.ls]

\* The forEach without its try/catch: the first callback that throws ends the
\* delivery and its exception leaves notifyListeners.
notifyListenersUnguarded(ls, event) ==
    LET cbs == ls[event]
        throwers == {i \in 1..Len(cbs) : cbs[i].throws}
        last == IF throwers = {} THEN Len(cbs)
                ELSE CHOOSE i \in throwers : \A j \in throwers : i <= j
    IN [calls |-> [i \in 1..last |-> [event |-> event, id |-> cbs[i].id]],
        raised |-> throwers # {},
        ls |-> ls]

\* notifyListeners(event, data): forEach over the event's array, each callback
\* inside its own try/catch; calls is the calls made, raised whether an
\* exception leaves notifyListeners, ls the listeners afterwards.
notifyListeners(ls, event) ==
    LET done == forEach(ls, event, 0, Len(ls[event]))
    IN [calls |-> done.calls, raised |-> FALSE, ls |-> done.ls]

\* The notifyListeners calls of one operation, in order: an exception that
\* leaves one of them ends the operation.
RECURSIVE NotifyFrom(_, _, _)
NotifyFrom(ls, evs, from) ==
    IF from > Len(evs) THEN [calls |-> <<>>, raised |-> FALSE, ls |-> ls]
    ELSE LET first == notifyListeners(ls, evs[from])
         IN IF first.raised THEN first
            ELSE LET rest == NotifyFrom(first.ls, evs, from + 1)
                 IN [calls |-> first.calls \o rest.calls, raised |-> rest.raised,
                     ls |-> rest.ls]

(***************************************************************************)
(* UIManager: the callbacks it subscribes to the store.                    *)
(***************************************************************************)
\* The wait of the debounce around calculateAndDisplayResults, in ms.
DebounceWait == 300

\* The callbacks initializeEventListeners subscribes, per event.
UiCallbacks ==
    [dataChanged |-> [id |-> 11, throws |-> FALSE],
     participantChanged |-> [id |-> 12, throws |-> FALSE],
     billChanged |-> [id |-> 13, throws |-> FALSE]]

\* How often the operation has called the page's callback of this event.
UiCalls(event) ==
    Cardinality({i \in 1..Len(delivered') :
                    delivered'[i] = [event |-> event, id |-> UiCallbacks[event].id]})

\* updateBillsTableHeaders: one header per participant.
Headers(names, count) ==
    [i \in 1..count |-> IF i <= Len(names) /\ names[i] # "" THEN names[i]
                        ELSE "P" \o ToString(i)]

\* The page before UIManager.initialize().
NoPage ==
    /\ billsTable = [headers |-> <<>>, rows |-> <<>>]
    /\ resultsSection = [summary |-> Null, cards |-> <<>>]
    /\ timers = <<>>
    /\ now = 0

\* What the page's callbacks do when an operation calls them: the
\* participantChanged one renders the headers, the billChanged one the rows,
\* and each call of the dataChanged one builds a debounced function of its own
\* and calls it, which sets a timer of its own.
UiCallbacksRun ==
    /\ billsTable' = [headers |-> IF UiCalls("participantChanged") > 0
                                  THEN Headers(participantNames', participantCount')
                                  ELSE billsTable.headers,
                      rows |-> IF UiCalls("billChanged") > 0 THEN bills'
                               ELSE billsTable.rows]
    /\ timers' = timers \o [i \in 1..UiCalls("dataChanged") |-> now + DebounceWait]
    /\ UNCHANGED <<resultsSection, now>>

\* What the notifyListeners calls of an operation (events') do.
NotifyListeners ==
    /\ delivered' = NotifyFrom(listeners, events', 1).calls
    /\ raised' = NotifyFrom(listeners, events', 1).raised
    /\ listeners' = NotifyFrom(listeners, events', 1).ls
    /\ UiCallbacksRun

(***************************************************************************)
(* DataManager: construction.                                              *)
(***************************************************************************)
AllTrue(n) == [i \in 1..n |-> TRUE]

createDefaultBills ==
    << [id |-> 1, whoPaid |-> 0, amount |-> 10000, notes |-> "Dinner for everyone",
        participants |-> AllTrue(4), dateAdded |-> DefaultDate],
       [id |-> 2, whoPaid |-> 1, amount |-> 3000, notes |-> "Drinks",
        participants |-> AllTrue(4), dateAdded |-> DefaultDate],
       [id |-> 3, whoPaid |-> 2, amount |-> 4000, notes |-> "Dessert",
        participants |-> AllTrue(4), dateAdded |-> DefaultDate],
       [id |-> 4, whoPaid |-> 3, amount |-> 2000, notes |-> "Tip",
        participants |-> AllTrue(4), dateAdded |-> DefaultDate] >>

(***************************************************************************)
(* DataManager: the participant count.                                     *)
(***************************************************************************)
\* The bounds taken as exclusive.
validateParticipantCountExclusive(count) ==
    NumberIsInteger(count) /\ JsGe(count, MinParticipants + 1)
                           /\ JsLe(count, MaxParticipants - 1)
validateParticipantCount(count) ==
    NumberIsInteger(count) /\ JsGe(count, MinParticipants) /\ JsLe(count, MaxParticipants)

RECURSIVE PushPlaceholders(_, _)
PushPlaceholders(names, count) ==
    IF Len(names) < count
    THEN PushPlaceholders(Append(names, Placeholder(Len(names) + 1)), count)
    ELSE names

adjustParticipantNames(names, count) ==
    IF Len(names) < count THEN PushPlaceholders(names, count)
    ELSE IF Len(names) > count THEN SubSeq(names, 1, count)
    ELSE names

RECURSIVE PushTrue(_, _)
PushTrue(mask, count) ==
    IF Len(mask) < count THEN PushTrue(Append(mask, TRUE), count) ELSE mask

\* The payer test off by one: whoPaid > count.
adjustBillOffByOne(bill, count) ==
    [bill EXCEPT
        !.whoPaid = IF @ > count THEN 0 ELSE @,
        !.participants = IF Len(@) < count THEN PushTrue(@, count)
                         ELSE IF Len(@) > count THEN SubSeq(@, 1, count)
                         ELSE @]
\* The body of the forEach of adjustBillsForParticipantCount, for one bill.
adjustBill(bill, count) ==
    [bill EXCEPT
        !.whoPaid = IF @ >= count THEN 0 ELSE @,
        !.participants = IF Len(@) < count THEN PushTrue(@, count)
                         ELSE IF Len(@) > count THEN SubSeq(@, 1, count)
                         ELSE @]

adjustBillsForParticipantCount(bs, count) ==
    [i \in 1..Len(bs) |-> adjustBill(bs[i], count)]

\* A findIndex that settles for the last bill when no bill has the id.
findIndexOrLast(bs, billId) ==
    IF \E i \in 1..Len(bs) : bs[i].id = billId
    THEN (CHOOSE i \in 1..Len(bs) :
              /\ bs[i].id = billId
              /\ \A j \in 1..(i - 1) : bs[j].id # billId) - 1
    ELSE Len(bs) - 1

\* bills.findIndex(bill => bill.id === billId): a 0-based index, or -1.
findIndex(bs, billId) ==
    IF \E i \in 1..Len(bs) : bs[i].id = billId
    THEN (CHOOSE i \in 1..Len(bs) :
              /\ bs[i].id = billId
              /\ \A j \in 1..(i - 1) : bs[j].id # billId) - 1
    ELSE -1

\* The position after the operation of the bill that was at position pos, for a
\* bill whose participants array the operation leaves the same array; 0 when
\* the bill is gone or the operation gave it a new array.  updateBill copies
\* the bill and with it the reference to the array; a shrinking resize assigns
\* a slice, a growing one pushes onto the array itself.
SharedAfter(pos) ==
    IF pos = 0 THEN 0
    ELSE IF ret'.op = "updateParticipantCount" /\ ret'.value
    THEN (IF Len(bills[pos].participants) > participantCount' THEN 0 ELSE pos)
    ELSE IF ret'.op = "updateBill" /\ ret'.value
    THEN (IF pos = findIndex(bills, ret'.billId) + 1 /\ "participants" \in DOMAIN ret'.updates
          THEN 0 ELSE pos)
    ELSE IF ret'.op = "removeBill" /\ ret'.value
    THEN (IF pos = findIndex(bills, ret'.billId) + 1 THEN 0
          ELSE IF pos > findIndex(bills, ret'.billId) + 1 THEN pos - 1 ELSE pos)
    ELSE IF ret'.op = "importData" /\ ret'.value
    THEN 0
    ELSE IF bills' # bills /\ ret'.op \in {"moveBill", "sortBills", "ungroupBills"}
    THEN CHOOSE q \in 1..Len(bills') :
            /\ bills'[q] = bills[pos]
            /\ \A r \in 1..(q - 1) : bills'[r] # bills[pos]
    ELSE pos

\* What the operation does to the snapshot exportData returned: an array the
\* snapshot shares with a bill of the store changes with it.  A snapshot that
\* is imported shares the arrays of all its bills with the store.
SharedArrays ==
    /\ shared' = IF ret'.op = "importData" /\ ret'.value /\ ret'.data = exported
                 THEN [k \in 1..Len(exported.bills.arr) |-> k]
                 ELSE [k \in 1..Len(shared) |-> SharedAfter(shared[k])]
    /\ exported' = IF exported = Null THEN exported
                   ELSE [exported EXCEPT
                           !.bills.arr =
                              [k \in 1..Len(@) |->
                                  IF shared'[k] # 0 /\ shared'[k] <= Len(bills')
                                  THEN [@[k] EXCEPT
                                          !.participants = bills'[shared'[k]].participants]
                                  ELSE @[k]]]

UpdateParticipantCount(newCount) ==
    /\ clock < MaxOps
    /\ IF ~validateParticipantCount(newCount)
       THEN /\ UNCHANGED storeVars
            /\ events' = <<>>
            /\ ret' = [op |-> "updateParticipantCount", newCount |-> newCount,
                       value |-> FALSE]
       ELSE /\ participantCount' = newCount.val
            /\ participantNames' = adjustParticipantNames(participantNames, newCount.val)
            /\ bills' = adjustBillsForParticipantCount(bills, newCount.val)
            /\ UNCHANGED isGrouped
            /\ events' = <<"participantChanged", "dataChanged">>
            /\ ret' = [op |-> "updateParticipantCount", newCount |-> newCount,
                       value |-> TRUE]
    /\ clock' = clock + 1
    /\ UNCHANGED nextId
    /\ SharedArrays
    /\ NotifyListeners
    /\ UNCHANGED engineVars

\* The values the model passes as newCount.
CountInputs ==
    << JsNum(1), JsNum(2), JsNum(3), JsNum(20), JsNum(21), JsHalf(2), JsStr("3") >>

(***************************************************************************)
(* DataManager: participant names.                                         *)
(***************************************************************************)
\* name || `Participant ${index + 1}`: the empty string is the only falsy string.
NameOrPlaceholder(index, name) == IF name # "" THEN name ELSE Placeholder(index + 1)

UpdateParticipantName(index, name) ==
    /\ clock < MaxOps
    /\ IF index >= 0 /\ index < participantCount
       THEN /\ participantNames' =
                   [participantNames EXCEPT ![index + 1] = NameOrPlaceholder(index, name)]
            /\ events' = <<"participantChanged", "dataChanged">>
       ELSE /\ UNCHANGED participantNames
            /\ events' = <<>>
    /\ UNCHANGED <<participantCount, bills, isGrouped>>
    /\ ret' = [op |-> "updateParticipantName", index |-> index, name |-> name]
    /\ clock' = clock + 1
    /\ UNCHANGED nextId
    /\ SharedArrays
    /\ NotifyListeners
    /\ UNCHANGED engineVars

NameIndexInputs == {-1, 0, participantCount}
NameInputs == {"", " ", "Zed"}

(***************************************************************************)
(* DataManager: bills.                                                     *)
(***************************************************************************)
\* An id generator that hands out the id it handed out last.
generateIdRepeated == nextId

\* A fresh id.  The code draws 'bill_' + Date.now() + '_' + nine random
\* base-36 digits; the model takes the draw to be fresh.
generateId == nextId + 1

\* billData.field || dflt, for a field that is absent, or is a number or a string
\* (0 and '' are falsy) or an array or a Date (always truthy).
FieldOr(billData, field, falsy, dflt) ==
    IF field \in DOMAIN billData /\ billData[field] # falsy THEN billData[field] ELSE dflt

\* The record addBill builds.  No array or Date equals the number 0, so the
\* falsy value given for participants and dateAdded never matches.
NewBill(billData) ==
    [id |-> generateId,
     whoPaid |-> FieldOr(billData, "whoPaid", 0, 0),
     amount |-> FieldOr(billData, "amount", 0, 0),
     notes |-> FieldOr(billData, "notes", "", ""),
     participants |-> IF "participants" \in DOMAIN billData
                      THEN billData.participants ELSE AllTrue(participantCount),
     dateAdded |-> IF "dateAdded" \in DOMAIN billData
                   THEN billData.dateAdded ELSE Now]

AddBill(billData) ==
    /\ clock < MaxOps
    /\ Len(bills) < MaxBills
    /\ bills' = Append(bills, NewBill(billData))
    /\ nextId' = nextId + 1
    /\ UNCHANGED <<participantCount, participantNames, isGrouped>>
    /\ events' = <<"billChanged", "dataChanged">>
    /\ ret' = [op |-> "addBill", billData |-> billData, value |-> NewBill(billData)]
    /\ clock' = clock + 1
    /\ SharedArrays
    /\ NotifyListeners
    /\ UNCHANGED engineVars

\* The values the model passes as billData.
BillDataInputs ==
    << EmptyObject,
       [whoPaid |-> 5],
       [participants |-> <<TRUE>>],
       [amount |-> 3, notes |-> "Taxi"] >>

\* A merge that starts from a blank note instead of the bill's own.
MergeBlankNotes(bill, updates) ==
    [f \in (DOMAIN bill) \cup (DOMAIN updates) |->
        IF f \in DOMAIN updates THEN updates[f]
        ELSE IF f = "notes" THEN "" ELSE bill[f]]

\* { ...bill, ...updates }
Merge(bill, updates) ==
    [f \in (DOMAIN bill) \cup (DOMAIN updates) |->
        IF f \in DOMAIN updates THEN updates[f] ELSE bill[f]]

UpdateBill(billId, updates) ==
    /\ clock < MaxOps
    /\ LET billIndex == findIndex(bills, billId) IN
       IF billIndex = -1
       THEN /\ UNCHANGED bills
            /\ events' = <<>>
            /\ ret' = [op |-> "updateBill", billId |-> billId, updates |-> updates,
                       value |-> FALSE]
       ELSE /\ bills' = [bills EXCEPT ![billIndex + 1] = Merge(@, updates)]
            /\ events' = <<"billChanged", "dataChanged">>
            /\ ret' = [op |-> "updateBill", billId |-> billId, updates |-> updates,
                       value |-> TRUE]
    /\ UNCHANGED <<participantCount, participantNames, isGrouped>>
    /\ clock' = clock + 1
    /\ UNCHANGED nextId
    /\ SharedArrays
    /\ NotifyListeners
    /\ UNCHANGED engineVars

\* The values the model passes as updates.
UpdatesInputs ==
    << [whoPaid |-> 1],
       [whoPaid |-> 7],
       [amount |-> 0],
       [notes |-> "taxi"],
       [participants |-> <<TRUE, FALSE>>],
       [participants |-> <<FALSE, TRUE, TRUE, TRUE>>],
       [id |-> 1] >>

\* The bill ids the model passes: every id in the list, and one no bill has.
UnknownId == 0
BillIdInputs == {bills[i].id : i \in 1..Len(bills)} \cup {UnknownId}

\* array.splice(index, 1) and array.splice(index, 0, item), index 0-based.
SpliceOut(s, index) == SubSeq(s, 1, index) \o SubSeq(s, index + 2, Len(s))
\* A splice that inserts one place too early.
SpliceInBefore(s, index, item) ==
    LET at == IF index > 0 THEN index - 1 ELSE 0
    IN SubSeq(s, 1, at) \o <<item>> \o SubSeq(s, at + 1, Len(s))

SpliceIn(s, index, item) == SubSeq(s, 1, index) \o <<item>> \o SubSeq(s, index + 1, Len(s))

RemoveBill(billId) ==
    /\ clock < MaxOps
    /\ LET billIndex == findIndex(bills, billId) IN
       IF billIndex = -1
       THEN /\ UNCHANGED bills
            /\ events' = <<>>
            /\ ret' = [op |-> "removeBill", billId |-> billId, value |-> FALSE]
       ELSE /\ bills' = SpliceOut(bills, billIndex)
            /\ events' = <<"billChanged", "dataChanged">>
            /\ ret' = [op |-> "removeBill", billId |-> billId, value |-> TRUE]
    /\ UNCHANGED <<participantCount, participantNames, isGrouped>>
    /\ clock' = clock + 1
    /\ UNCHANGED nextId
    /\ SharedArrays
    /\ NotifyListeners
    /\ UNCHANGED engineVars

MoveBill(billId, newIndex) ==
    /\ clock < MaxOps
    /\ LET currentIndex == findIndex(bills, billId) IN
       IF currentIndex = -1 \/ newIndex < 0 \/ newIndex >= Len(bills)
       THEN /\ UNCHANGED bills
            /\ events' = <<>>
            /\ ret' = [op |-> "moveBill", billId |-> billId, newIndex |-> newIndex,
                       value |-> FALSE]
       ELSE /\ bills' = SpliceIn(SpliceOut(bills, currentIndex), newIndex,
                                 bills[currentIndex + 1])
            /\ events' = <<"billChanged", "dataChanged">>
            /\ ret' = [op |-> "moveBill", billId |-> billId, newIndex |-> newIndex,
                       value |-> TRUE]
    /\ UNCHANGED <<participantCount, participantNames, isGrouped>>
    /\ clock' = clock + 1
    /\ UNCHANGED nextId
    /\ SharedArrays
    /\ NotifyListeners
    /\ UNCHANGED engineVars

MoveIndexInputs == (-1)..Len(bills)

(***************************************************************************)
(* DataManager: sorting.                                                   *)
(***************************************************************************)
\* The strings of the model in the order of JavaScript's < on strings (by
\* UTF-16 code units).
StringsInOrder ==
    << "", " ", "Alice", "Bob", "Charlie", "Dessert", "Diana",
       "Dinner for everyone", "Drinks", "P0", "P1", "P10", "P11", "P12",
       "P13", "P14", "P15", "P16", "P17", "P18", "P19", "P2", "P20", "P21",
       "P22", "P3", "P4", "P5", "P6", "P7", "P8", "P9", "Participant 1",
       "Participant 10", "Participant 11", "Participant 12", "Participant 13",
       "Participant 14", "Participant 15", "Participant 16", "Participant 17",
       "Participant 18", "Participant 19", "Participant 2", "Participant 20",
       "Participant 21", "Participant 22", "Participant 3", "Participant 4",
       "Participant 5", "Participant 6", "Participant 7", "Participant 8",
       "Participant 9", "Taxi", "Tip", "Zed", "dessert",
       "dinner for everyone", "drinks", "taxi", "tip" >>

\* The place of a string in that order: a < b on strings iff StrRank(a) < StrRank(b).
StrRank(str) == CHOOSE i \in 1..Len(StringsInOrder) : StringsInOrder[i] = str

\* str.toLowerCase()
toLowerCase(str) ==
    CASE str = "Dinner for everyone" -> "dinner for everyone"
      [] str = "Drinks" -> "drinks"
      [] str = "Dessert" -> "dessert"
      [] str = "Tip" -> "tip"
      [] str = "Taxi" -> "taxi"
      [] OTHER -> str

\* participantNames[whoPaid] || `P${whoPaid + 1}`
PayerName(names, whoPaid) ==
    IF whoPaid >= 0 /\ whoPaid < Len(names) /\ names[whoPaid + 1] # ""
    THEN names[whoPaid + 1]
    ELSE "P" \o ToString(whoPaid + 1)

\* aVal (bVal) of the comparator, as a number that orders as the value does.
SortKey(bill, names, sortBy) ==
    CASE sortBy = "whoPaid" -> StrRank(PayerName(names, bill.whoPaid))
      [] sortBy = "amount" -> bill.amount
      [] sortBy = "notes" -> StrRank(toLowerCase(bill.notes))
      [] sortBy = "date" -> bill.dateAdded
      [] OTHER -> 0

\* Whether aVal and bVal compare at all: > and < on two Dates compare their time
\* values, and are both false when one of them is NaN.
Comparable(a, b, sortBy) ==
    sortBy = "date" => (a.dateAdded # InvalidDate /\ b.dateAdded # InvalidDate)

\* The comparator of sortBills: 1, -1, or 0 for an unknown sortBy.
Compare(a, b, names, sortBy, direction) ==
    IF sortBy \notin {"whoPaid", "amount", "notes", "date"} THEN 0
    ELSE IF direction = "asc"
         THEN (IF /\ Comparable(a, b, sortBy)
                  /\ SortKey(a, names, sortBy) > SortKey(b, names, sortBy)
               THEN 1 ELSE -1)
         ELSE (IF /\ Comparable(a, b, sortBy)
                  /\ SortKey(a, names, sortBy) < SortKey(b, names, sortBy)
               THEN 1 ELSE -1)

RECURSIVE Orders(_)
\* The orders of the positions in S, as sequences.
Orders(S) ==
    IF S = {} THEN {<<>>}
    ELSE UNION {{<<x>> \o p : p \in Orders(S \ {x})} : x \in S}

\* What bills.sort(comparator) may leave.  For a known sortBy the comparator
\* answers -1 both ways round for two bills with equal keys, so it is not a
\* consistent comparator and ECMAScript leaves the order to the implementation:
\* the model allows every order of the bills in which no bill stands before one
\* the comparator puts strictly before it.  For an unknown sortBy the comparator
\* is constantly 0 and the (stable) sort changes nothing.
SortOutcomes(bs, names, sortBy, direction) ==
    IF sortBy \notin {"whoPaid", "amount", "notes", "date"} THEN {bs}
    ELSE { [i \in 1..Len(bs) |-> bs[p[i]]] : p \in
            { q \in Orders(1..Len(bs)) :
                \A i, j \in 1..Len(bs) :
                    (i < j /\ SortKey(bs[q[i]], names, sortBy) # SortKey(bs[q[j]], names, sortBy))
                    => Compare(bs[q[i]], bs[q[j]], names, sortBy, direction) = -1 } }

SortBills(sortBy, direction) ==
    /\ clock < MaxOps
    /\ bills' \in SortOutcomes(bills, participantNames, sortBy, direction)
    /\ UNCHANGED <<participantCount, participantNames, isGrouped>>
    /\ events' = <<"billChanged", "dataChanged">>
    /\ ret' = [op |-> "sortBills", sortBy |-> sortBy, direction |-> direction]
    /\ clock' = clock + 1
    /\ UNCHANGED nextId
    /\ SharedArrays
    /\ NotifyListeners
    /\ UNCHANGED engineVars

SortByInputs == {"whoPaid", "amount", "notes", "date", "other"}
DirectionInputs == {"asc", "desc"}

\* ungroupBills: sortBills('date', 'asc'), which notifies, then its own dataChanged.
UngroupBills ==
    /\ clock < MaxOps
    /\ IF ~isGrouped
       THEN /\ UNCHANGED <<bills, isGrouped>>
            /\ events' = <<>>
       ELSE /\ bills' \in SortOutcomes(bills, participantNames, "date", "asc")
            /\ isGrouped' = FALSE
            /\ events' = <<"billChanged", "dataChanged", "dataChanged">>
    /\ UNCHANGED <<participantCount, participantNames>>
    /\ ret' = [op |-> "ungroupBills"]
    /\ clock' = clock + 1
    /\ UNCHANGED nextId
    /\ SharedArrays
    /\ NotifyListeners
    /\ UNCHANGED engineVars

(***************************************************************************)
(* DataManager: export and import.                                         *)
(***************************************************************************)
Version == "2.0"

\* Whether exportData throws: bill.dateAdded.toISOString() of some bill does.
ExportThrows == \E i \in 1..Len(bills) : toISOStringThrows(bills[i].dateAdded)

\* The object exportData returns, when it returns.
exportData ==
    [participantCount |-> JsNum(participantCount),
     participantNames |-> JsArr(participantNames),
     bills |-> JsArr([i \in 1..Len(bills) |->
                         [bills[i] EXCEPT !.dateAdded = toISOString(@)]]),
     isGrouped |-> isGrouped,
     version |-> Version,
     savedAt |-> toISOString(Now)]

ExportData ==
    /\ IF ExportThrows
       THEN /\ UNCHANGED <<exported, shared>>
            /\ ret' = [op |-> "exportData", threw |-> TRUE]
       ELSE /\ exported' = exportData
            /\ shared' = [k \in 1..Len(bills) |-> k]
            /\ ret' = [op |-> "exportData", threw |-> FALSE]
    /\ events' = <<>>
    /\ UNCHANGED storeVars
    /\ UNCHANGED <<nextId, clock>>
    /\ NotifyListeners
    /\ UNCHANGED engineVars

\* data && typeof data.participantCount === 'number' && Array.isArray(..) && ..
validateImportedData(data) ==
    /\ data # Null
    /\ Get(data, "participantCount").type = "number"
    /\ Get(data, "participantNames").type = "array"
    /\ Get(data, "bills").type = "array"
    /\ NumberIsInteger(data.participantCount)
    /\ Len(data.participantNames.arr) = data.participantCount.val

\* Whether data.bills.map(bill => ({...bill, dateAdded: new Date(bill.dateAdded)}))
\* throws: bill.dateAdded is a TypeError for a null entry.
MapThrows(billsArr) == \E i \in 1..Len(billsArr) : billsArr[i] = Null

\* The bills that map builds.
ImportedBills(billsArr) ==
    [i \in 1..Len(billsArr) |-> [billsArr[i] EXCEPT !.dateAdded = NewDate(@)]]

\* data.isGrouped || false
ImportedIsGrouped(data) == IF "isGrouped" \in DOMAIN data THEN data.isGrouped ELSE FALSE

\* The try block runs its assignments in order; an exception leaves the ones
\* already made and goes to the catch, which returns false.
ImportData(data) ==
    /\ clock < MaxOps
    /\ IF ~validateImportedData(data)
       THEN /\ UNCHANGED storeVars
            /\ events' = <<>>
            /\ ret' = [op |-> "importData", data |-> data, value |-> FALSE]
       ELSE /\ participantCount' = data.participantCount.val
            /\ participantNames' = data.participantNames.arr
            /\ IF MapThrows(data.bills.arr)
               THEN /\ UNCHANGED <<bills, isGrouped>>
                    /\ events' = <<>>
                    /\ ret' = [op |-> "importData", data |-> data, value |-> FALSE]
               ELSE /\ bills' = ImportedBills(data.bills.arr)
                    /\ isGrouped' = ImportedIsGrouped(data)
                    /\ events' = <<"dataChanged">>
                    /\ ret' = [op |-> "importData", data |-> data, value |-> TRUE]
    /\ clock' = clock + 1
    /\ UNCHANGED nextId
    /\ SharedArrays
    /\ NotifyListeners
    /\ UNCHANGED engineVars

\* A bill of a snapshot file.
FileBill(id, whoPaid, amount, participants) ==
    [id |-> id, whoPaid |-> whoPaid, amount |-> amount, notes |-> "Taxi",
     participants |-> participants, dateAdded |-> toISOString(DefaultDate + 1)]

\* The values the model passes as data, besides the snapshots exportData returned.
ImportInputs ==
    << \* a well-formed snapshot
       [participantCount |-> JsNum(2), participantNames |-> JsArr(<<"Alice", "Bob">>),
        bills |-> JsArr(<<FileBill(7, 1, 500, <<TRUE, TRUE>>)>>), isGrouped |-> TRUE],
       \* a bills array with a null entry
       [participantCount |-> JsNum(2), participantNames |-> JsArr(<<"Alice", "Bob">>),
        bills |-> JsArr(<<FileBill(7, 1, 500, <<TRUE, TRUE>>), Null>>), isGrouped |-> TRUE],
       \* a bill whose payer and mask do not fit the participant count
       [participantCount |-> JsNum(2), participantNames |-> JsArr(<<"Alice", "Bob">>),
        bills |-> JsArr(<<FileBill(7, 5, 500, <<TRUE, TRUE, TRUE>>)>>)],
       \* a bill whose dateAdded is a string that is no date
       [participantCount |-> JsNum(2), participantNames |-> JsArr(<<"Alice", "Bob">>),
        bills |-> JsArr(<<[FileBill(8, 0, 500, <<TRUE, TRUE>>)
                             EXCEPT !.dateAdded = JsStr("n/a")]>>)],
       \* fewer than two participants
       [participantCount |-> JsNum(1), participantNames |-> JsArr(<<"Alice">>),
        bills |-> JsArr(<<>>)],
       [participantCount |-> JsNum(0), participantNames |-> JsArr(<<>>),
        bills |-> JsArr(<<>>)],
       \* a missing key
       [participantCount |-> JsNum(2), participantNames |-> JsArr(<<"Alice", "Bob">>)],
       [participantCount |-> JsNum(2), bills |-> JsArr(<<>>)],
       [participantNames |-> JsArr(<<"Alice", "Bob">>), bills |-> JsArr(<<>>)],
       \* a participantCount that is no number, or not the number of names
       [participantCount |-> JsStr("2"), participantNames |-> JsArr(<<"Alice", "Bob">>),
        bills |-> JsArr(<<>>)],
       [participantCount |-> JsNum(3), participantNames |-> JsArr(<<"Alice", "Bob">>),
        bills |-> JsArr(<<>>)],
       [participantCount |-> JsHalf(2), participantNames |-> JsArr(<<"Alice", "Bob">>),
        bills |-> JsArr(<<>>)],
       \* names or bills that are no array
       [participantCount |-> JsNum(2), participantNames |-> JsStr("Alice"),
        bills |-> JsArr(<<>>)],
       [participantCount |-> JsNum(2), participantNames |-> JsArr(<<"Alice", "Bob">>),
        bills |-> JsStr("Taxi")],
       \* null
       Null >>

(***************************************************************************)
(* CalculationEngine: numbers and arrays.                                  *)
(*                                                                         *)
(* A number of the engine is Num(v), v in units of 1/Scale cent, or NaN.   *)
(* An array element may also be a hole (an index below length that was     *)
(* never written); reading a hole, or an index outside the array, gives    *)
(* undefined.                                                              *)
(***************************************************************************)
\* The largest number of participants a bill of an engine run is shared by.
MaxShare == 4

RECURSIVE Gcd(_, _)
Gcd(a, b) == IF b = 0 THEN a ELSE Gcd(b, a % b)

RECURSIVE LcmUpTo(_)
LcmUpTo(n) == IF n <= 1 THEN 1 ELSE (LcmUpTo(n - 1) * n) \div Gcd(LcmUpTo(n - 1), n)

\* Every amount / k with k in 1..MaxShare is a whole number of 1/Scale cents.
Scale == LcmUpTo(MaxShare)

\* The tolerance 0.01, in cents.
ToleranceCents == 1
Tolerance == ToleranceCents * Scale

Num(v) == [k |-> "num", v |-> v]
NaN == [k |-> "nan", v |-> 0]
Hole == [k |-> "hole", v |-> 0]
Undef == [k |-> "undefined", v |-> 0]

\* array[index], index 0-based.
At(array, index) ==
    IF index >= 0 /\ index < Len(array) /\ array[index + 1].k # "hole"
    THEN array[index + 1]
    ELSE Undef

\* array[index] = value: an index at or past length grows the array, leaving
\* holes; a negative index sets a property and leaves the elements alone.
SetAt(array, index, value) ==
    IF index < 0 THEN array
    ELSE IF index < Len(array) THEN [array EXCEPT ![index + 1] = value]
    ELSE array \o [i \in 1..(index - Len(array)) |-> Hole] \o <<value>>

\* x + y and x - y: NaN unless both are numbers.
Plus(x, y) == IF x.k = "num" /\ y.k = "num" THEN Num(x.v + y.v) ELSE NaN
Minus(x, y) == IF x.k = "num" /\ y.k = "num" THEN Num(x.v - y.v) ELSE NaN

\* x > y and x < y: false when either is NaN.
Gt(x, y) == x.k = "num" /\ y.k = "num" /\ x.v > y.v
Lt(x, y) == x.k = "num" /\ y.k = "num" /\ x.v < y.v

\* new Array(n).fill(0)
Zeros(n) == [i \in 1..n |-> Num(0)]

\* bill.participants.filter(p => p).length
CountTrue(mask) == Cardinality({i \in 1..Len(mask) : mask[i]})

(***************************************************************************)
(* CalculationEngine.calculateResults.                                     *)
(***************************************************************************)
\* The inner forEach: totalOwed[index] += amountPerPerson for each true entry,
\* from position `from` of the mask on.
RECURSIVE AddShares(_, _, _, _)
AddShares(totalOwed, mask, amountPerPerson, from) ==
    IF from > Len(mask) THEN totalOwed
    ELSE AddShares(IF mask[from]
                   THEN SetAt(totalOwed, from - 1,
                              Plus(At(totalOwed, from - 1), amountPerPerson))
                   ELSE totalOwed,
                   mask, amountPerPerson, from + 1)

\* bill.amount / participantCount, for a participantCount in 1..MaxShare.
AmountPerPerson(amount, count) == Num((amount * Scale) \div count)

\* The body of bills.forEach for one bill, on acc = [totalSpent, totalOwed].
ProcessBill(acc, bill) ==
    IF bill.amount > 0
    THEN [totalSpent |-> SetAt(acc.totalSpent, bill.whoPaid,
                               Plus(At(acc.totalSpent, bill.whoPaid),
                                    Num(bill.amount * Scale))),
          totalOwed |-> IF CountTrue(bill.participants) > 0
                        THEN AddShares(acc.totalOwed, bill.participants,
                                       AmountPerPerson(bill.amount,
                                                       CountTrue(bill.participants)), 1)
                        ELSE acc.totalOwed]
    ELSE acc

RECURSIVE ProcessBills(_, _, _)
ProcessBills(acc, bs, from) ==
    IF from > Len(bs) THEN acc
    ELSE ProcessBills(ProcessBill(acc, bs[from]), bs, from + 1)

\* The subtraction the wrong way round: totalOwed[index] - spent.
BalancesOwedMinusSpent(totalSpent, totalOwed) ==
    [i \in 1..Len(totalSpent) |->
        IF totalSpent[i].k = "hole" THEN Hole
        ELSE Minus(At(totalOwed, i - 1), totalSpent[i])]

\* totalSpent.map((spent, index) => spent - totalOwed[index]); map keeps holes.
Balances(totalSpent, totalOwed) ==
    [i \in 1..Len(totalSpent) |->
        IF totalSpent[i].k = "hole" THEN Hole
        ELSE Minus(totalSpent[i], At(totalOwed, i - 1))]

\* array.reduce((sum, amount) => sum + amount, 0); reduce skips holes.
RECURSIVE SumFrom(_, _)
SumFrom(array, from) ==
    IF from > Len(array) THEN Num(0)
    ELSE IF array[from].k = "hole" THEN SumFrom(array, from + 1)
    ELSE Plus(array[from], SumFrom(array, from + 1))

Sum(array) == SumFrom(array, 1)

\* Totals that carry the total amount over from the run before.
TotalsCarriedOver(count, bs) ==
    LET acc == ProcessBills([totalSpent |-> Zeros(count), totalOwed |-> Zeros(count)],
                            bs, 1)
    IN [totalSpent |-> acc.totalSpent,
        totalOwed |-> acc.totalOwed,
        balances |-> Balances(acc.totalSpent, acc.totalOwed),
        totalAmount |-> IF results = Null THEN Sum(acc.totalSpent)
                        ELSE Plus(results.totalAmount, Sum(acc.totalSpent)),
        participantCount |-> count,
        billCount |-> Len(bs)]

\* What calculateResults has computed when it calls generatePaymentInstructions.
Totals(count, bs) ==
    LET acc == ProcessBills([totalSpent |-> Zeros(count), totalOwed |-> Zeros(count)],
                            bs, 1)
    IN [totalSpent |-> acc.totalSpent,
        totalOwed |-> acc.totalOwed,
        balances |-> Balances(acc.totalSpent, acc.totalOwed),
        totalAmount |-> Sum(acc.totalSpent),
        participantCount |-> count,
        billCount |-> Len(bs)]

(***************************************************************************)
(* CalculationEngine.validateInputs.                                       *)
(***************************************************************************)
ValidationErrors(count, bs) ==
    (IF count < 2 THEN <<"At least 2 participants are required">> ELSE <<>>)
    \o (IF Len(bs) = 0 THEN <<"At least one bill is required">> ELSE <<>>)
    \o SelectSeq([i \in 1..Len(bs) |->
                     IF CountTrue(bs[i].participants) = 0
                     THEN "Bill " \o ToString(i) \o " has no participants selected"
                     ELSE ""],
                 LAMBDA e : e # "")
    \o SelectSeq([i \in 1..Len(bs) |->
                     IF bs[i].amount < 0
                     THEN "Bill " \o ToString(i) \o " has a negative amount"
                     ELSE ""],
                 LAMBDA e : e # "")

ValidationWarnings(count) ==
    IF count > MaxParticipants
    THEN <<"Large number of participants may make calculations complex">>
    ELSE <<>>

\* A validation that counts a warning as an error.
validateInputsStrict(count, bs) ==
    [isValid |-> Len(ValidationErrors(count, bs)) = 0 /\ Len(ValidationWarnings(count)) = 0,
     errors |-> ValidationErrors(count, bs),
     warnings |-> ValidationWarnings(count)]

validateInputs(count, bs) ==
    [isValid |-> Len(ValidationErrors(count, bs)) = 0,
     errors |-> ValidationErrors(count, bs),
     warnings |-> ValidationWarnings(count)]

(***************************************************************************)
(* CalculationEngine.generatePaymentInstructions.                          *)
(***************************************************************************)
\* participantNames[index]
NameAt(names, index) ==
    IF index >= 0 /\ index < Len(names) THEN names[index + 1] ELSE "undefined"

\* Math.abs(balance)
Abs(v) == IF v < 0 THEN -v ELSE v

\* The first forEach: the creditors (wantCreditors) or the debtors, in index order.
Partition(bal, names, wantCreditors) ==
    LET picked == SelectSeq([i \in 1..Len(bal) |-> i],
                            LAMBDA i : IF wantCreditors
                                       THEN Gt(bal[i], Num(Tolerance))
                                       ELSE /\ ~Gt(bal[i], Num(Tolerance))
                                            /\ Lt(bal[i], Num(-Tolerance)))
    IN [j \in 1..Len(picked) |->
           [index |-> picked[j] - 1,
            amount |-> Abs(bal[picked[j]].v),
            name |-> NameAt(names, picked[j] - 1)]]

\* entries.sort((a, b) => b.amount - a.amount): a stable sort, largest first.
RECURSIVE InsertDesc(_, _)
InsertDesc(sorted, entry) ==
    IF sorted = <<>> THEN <<entry>>
    ELSE IF sorted[Len(sorted)].amount >= entry.amount THEN Append(sorted, entry)
    ELSE Append(InsertDesc(SubSeq(sorted, 1, Len(sorted) - 1), entry),
                sorted[Len(sorted)])

RECURSIVE SortDescFrom(_, _, _)
SortDescFrom(sorted, entries, from) ==
    IF from > Len(entries) THEN sorted
    ELSE SortDescFrom(InsertDesc(sorted, entries[from]), entries, from + 1)

SortDesc(entries) == SortDescFrom(<<>>, entries, 1)

Min(a, b) == IF a < b THEN a ELSE b

\* Math.min(creditor.amount, debtor.amount) of the current pair.
PaymentAmount == Min(creditors[creditorIndex + 1].amount, debtors[debtorIndex + 1].amount)

\* A test that lets a payment of exactly the tolerance through.
PaysFromTolerance(paymentAmount) == paymentAmount >= Tolerance

\* Whether the loop body records a transfer.
Pays(paymentAmount) == paymentAmount > Tolerance

\* The decrement forgotten.
RemainingStale(amount, paymentAmount) == amount
\* entry.amount -= paymentAmount (paymentAmount is 0 here when nothing is paid).
Remaining(amount, paymentAmount) == amount - paymentAmount

\* Whether the loop moves past an entry with this amount left.
Settled(amount) == amount < Tolerance

\* calculateResults up to its call of generatePaymentInstructions.
CalculateResults ==
    /\ pc = "idle"
    /\ results' = Totals(participantCount, bills)
    /\ argBalances' = Totals(participantCount, bills).balances
    /\ argNames' = participantNames
    /\ pc' = "settle"
    /\ UNCHANGED <<creditors, debtors, creditorIndex, debtorIndex, instructions>>
    /\ UNCHANGED pageVars
    /\ UNCHANGED storeVars
    /\ UNCHANGED callVars

\* generatePaymentInstructions(balances, names) up to its while loop.
StartSettle ==
    /\ pc = "settle"
    /\ creditors' = SortDesc(Partition(argBalances, argNames, TRUE))
    /\ debtors' = SortDesc(Partition(argBalances, argNames, FALSE))
    /\ creditorIndex' = 0
    /\ debtorIndex' = 0
    /\ instructions' = <<>>
    /\ pc' = "loop"
    /\ UNCHANGED <<results, argBalances, argNames>>
    /\ UNCHANGED pageVars
    /\ UNCHANGED storeVars
    /\ UNCHANGED callVars

\* One iteration of the while loop.
SettleStep ==
    /\ pc = "loop"
    /\ creditorIndex < Len(creditors) /\ debtorIndex < Len(debtors)
    /\ LET creditor == creditors[creditorIndex + 1]
           debtor == debtors[debtorIndex + 1]
           paid == IF Pays(PaymentAmount) THEN PaymentAmount ELSE 0
       IN /\ instructions' = IF Pays(PaymentAmount)
                             THEN Append(instructions,
                                         [from |-> debtor.name, to |-> creditor.name,
                                          amount |-> PaymentAmount])
                             ELSE instructions
          /\ creditors' = [creditors EXCEPT ![creditorIndex + 1].amount = Remaining(@, paid)]
          /\ debtors' = [debtors EXCEPT ![debtorIndex + 1].amount = Remaining(@, paid)]
          /\ creditorIndex' = IF Settled(Remaining(creditor.amount, paid))
                              THEN creditorIndex + 1 ELSE creditorIndex
          /\ debtorIndex' = IF Settled(Remaining(debtor.amount, paid))
                            THEN debtorIndex + 1 ELSE debtorIndex
    /\ UNCHANGED <<pc, results, argBalances, argNames>>
    /\ UNCHANGED pageVars
    /\ UNCHANGED storeVars
    /\ UNCHANGED callVars

\* The loop condition fails: return instructions.
SettleReturn ==
    /\ pc = "loop"
    /\ ~(creditorIndex < Len(creditors) /\ debtorIndex < Len(debtors))
    /\ pc' = "done"
    /\ UNCHANGED <<results, argBalances, argNames, creditors, debtors, creditorIndex,
                   debtorIndex, instructions>>
    /\ UNCHANGED pageVars
    /\ UNCHANGED storeVars
    /\ UNCHANGED callVars

(***************************************************************************)
(* The store.                                                              *)
(***************************************************************************)
Init ==
    /\ participantCount = 4
    /\ participantNames = <<"Alice", "Bob", "Charlie", "Diana">>
    /\ bills = createDefaultBills
    /\ isGrouped = FALSE
    /\ events = <<>>
    /\ NoListeners
    /\ ret = [op |-> "constructor"]
    /\ nextId = 4
    /\ clock = 0
    /\ exported = Null
    /\ shared = <<>>
    /\ NoPage
    /\ pc = "idle"
    /\ results = Null
    /\ argBalances = <<>>
    /\ argNames = <<>>
    /\ creditors = <<>>
    /\ debtors = <<>>
    /\ creditorIndex = 0
    /\ debtorIndex = 0
    /\ instructions = <<>>

Next ==
    \/ \E i \in 1..Len(CountInputs) : UpdateParticipantCount(CountInputs[i])
    \/ \E index \in NameIndexInputs, name \in NameInputs : UpdateParticipantName(index, name)
    \/ \E i \in 1..Len(BillDataInputs) : AddBill(BillDataInputs[i])
    \/ \E billId \in BillIdInputs, i \in 1..Len(UpdatesInputs) :
          UpdateBill(billId, UpdatesInputs[i])
    \/ \E billId \in BillIdInputs : RemoveBill(billId)
    \/ \E billId \in BillIdInputs, newIndex \in MoveIndexInputs : MoveBill(billId, newIndex)
    \/ \E sortBy \in SortByInputs, direction \in DirectionInputs : SortBills(sortBy, direction)
    \/ UngroupBills
    \/ ExportData
    \/ \E i \in 1..Len(ImportInputs) : ImportData(ImportInputs[i])
    \/ exported # Null /\ ImportData(exported)

Spec == Init /\ [][Next]_vars

(***************************************************************************)
(* The engine on a store.  The store is the constructed one, or the one    *)
(* importData leaves for a snapshot of a bounded family: two to MaxShare   *)
(* participants and up to MaxCalcBills bills, each paid by the first or    *)
(* the last participant or by the index one past the last.                 *)
(***************************************************************************)
MaxCalcBills == 2

CalcAmounts == {-1, 0, 2, 6}
CalcPayers(n) == {0, n - 1, n}

CalcBillInputs(n) ==
    { [whoPaid |-> whoPaid, amount |-> amount, notes |-> "",
       participants |-> participants, dateAdded |-> toISOString(DefaultDate)] :
          whoPaid \in CalcPayers(n), amount \in CalcAmounts,
          participants \in [1..n -> BOOLEAN] }

\* The snapshot with n participants and the bills bs, numbered from 1.
CalcSnapshot(n, bs) ==
    [participantCount |-> JsNum(n),
     participantNames |-> JsArr([i \in 1..n |-> Placeholder(i)]),
     bills |-> JsArr([i \in 1..Len(bs) |-> Merge(bs[i], [id |-> i])])]

EngineIdle ==
    /\ pc = "idle"
    /\ results = Null
    /\ argBalances = <<>>
    /\ argNames = <<>>
    /\ creditors = <<>>
    /\ debtors = <<>>
    /\ creditorIndex = 0
    /\ debtorIndex = 0
    /\ instructions = <<>>

InitCalc ==
    \/ Init
    \/ /\ \E n \in 2..MaxShare, m \in 0..MaxCalcBills :
             \E bs \in [1..m -> CalcBillInputs(n)] :
                LET data == CalcSnapshot(n, bs) IN
                /\ validateImportedData(data)
                /\ ~MapThrows(data.bills.arr)
                /\ participantCount = data.participantCount.val
                /\ participantNames = data.participantNames.arr
                /\ bills = ImportedBills(data.bills.arr)
                /\ isGrouped = ImportedIsGrouped(data)
                /\ ret = [op |-> "importData", data |-> data, value |-> TRUE]
       /\ events = <<"dataChanged">>
       /\ NoListeners
       /\ nextId = 4
       /\ clock = 1
       /\ exported = Null
       /\ shared = <<>>
    /\ shared = <<>>
    /\ NoPage
       /\ EngineIdle

NextCalc ==
    \/ CalculateResults
    \/ StartSettle
    \/ SettleStep
    \/ SettleReturn

SpecCalc == InitCalc /\ [][NextCalc]_vars

(***************************************************************************)
(* generatePaymentInstructions on a balance vector: two to                 *)
(* MaxSettleParticipants balances, each a whole number of half cents: at,  *)
(* just below and just above the 0.01 tolerance, and some larger ones.     *)
(***************************************************************************)
MaxSettleParticipants == 4

SettleHalfCents == {-9, -6, -5, -3, -2, -1, 0, 1, 2, 3, 5, 6, 9}
SettleBalances == { Num(h * (Scale \div 2)) : h \in SettleHalfCents }

InitSettle ==
    /\ participantCount = 4
    /\ participantNames = <<"Alice", "Bob", "Charlie", "Diana">>
    /\ bills = createDefaultBills
    /\ isGrouped = FALSE
    /\ events = <<>>
    /\ NoListeners
    /\ ret = [op |-> "constructor"]
    /\ nextId = 4
    /\ clock = 0
    /\ exported = Null
    /\ shared = <<>>
    /\ NoPage
    /\ pc = "settle"
    /\ results = Null
    /\ \E n \in 2..MaxSettleParticipants :
          /\ argBalances \in [1..n -> SettleBalances]
          /\ argNames = [i \in 1..n |-> Placeholder(i)]
    /\ creditors = <<>>
    /\ debtors = <<>>
    /\ creditorIndex = 0
    /\ debtorIndex = 0
    /\ instructions = <<>>

NextSettle ==
    \/ StartSettle
    \/ SettleStep
    \/ SettleReturn

SpecSettle == InitSettle /\ [][NextSettle]_vars

(***************************************************************************)
(* The claims about the store, checked under Spec.                         *)
(***************************************************************************)
\* C1: after a successful updateParticipantCount(newN), whatever the store was
\* before, participantNames has length newN, every bill's participants mask has
\* length newN and every bill's whoPaid is below newN.
C1_ResizeCascade ==
    (ret.op = "updateParticipantCount" /\ ret.value)
    => /\ Len(participantNames) = ret.newCount.val
       /\ \A i \in 1..Len(bills) :
             /\ Len(bills[i].participants) = ret.newCount.val
             /\ bills[i].whoPaid < ret.newCount.val

\* A resize to two participants of a store that held a bill paid by index 5 with
\* a mask of three entries: the payer was reset and the mask cut.
C1_Witness ==
    /\ ret.op = "updateParticipantCount" /\ ret.value
    /\ ret.newCount.val = 2
    /\ Len(bills) = 1 /\ bills[1].id = 7
    /\ bills[1].whoPaid = 0 /\ bills[1].participants = <<TRUE, TRUE>>

\* C2: in every reachable state every bill's participants mask has length
\* participantCount.
C2_MaskLength ==
    \A i \in 1..Len(bills) : Len(bills[i].participants) = participantCount

\* C3: in every reachable state every bill's whoPaid is an index of a
\* participant, 0 <= whoPaid < participantCount.
C3_PayerInRange ==
    \A i \in 1..Len(bills) : bills[i].whoPaid >= 0 /\ bills[i].whoPaid < participantCount

\* An integer in [2, 20], said without the code's test.
C4_IntegerInRange(x) ==
    /\ x.type = "number"
    /\ ~x.half
    /\ x.val \in 2..20

\* C4: updateParticipantCount(newCount) returns false exactly when newCount is
\* not an integer in [2, 20], and then it changes nothing of the store and
\* notifies nobody.
C4_ResizeValidation ==
    [][ ret'.op = "updateParticipantCount"
        => /\ ret'.value = C4_IntegerInRange(ret'.newCount)
           /\ ~ret'.value => (UNCHANGED storeVars /\ events' = <<>>) ]_vars

\* A refused resize to 21 after an earlier call, and nothing notified.
C4_Witness ==
    /\ ret.op = "updateParticipantCount" /\ ~ret.value
    /\ ret.newCount = JsNum(21)
    /\ clock = 2
    /\ events = <<>>

\* C5: whenever importData returns false the store is what it was before the call.
C5_AtomicImport ==
    [][ (ret'.op = "importData" /\ ~ret'.value) => UNCHANGED storeVars ]_vars

\* The inputs C6 says importData rejects: a required key missing, a
\* participantCount that is no number or below 2, names that are no array or
\* not participantCount many, bills that are no array.
C6_MustReject(data) ==
    \/ data = Null
    \/ {"participantCount", "participantNames", "bills"} \ (DOMAIN data) # {}
    \/ data.participantCount.type # "number"
    \/ data.participantCount.val < 2
    \/ data.participantNames.type # "array"
    \/ ~(NumberIsInteger(data.participantCount)
         /\ Len(data.participantNames.arr) = data.participantCount.val)
    \/ data.bills.type # "array"

\* C6: importData returns false and leaves the store unchanged for every such
\* input.
C6_ImportRejects ==
    [][ (ret'.op = "importData" /\ C6_MustReject(ret'.data))
        => (~ret'.value /\ UNCHANGED storeVars) ]_vars

\* C7: from every reachable store importData(exportData()) succeeds, that is
\* exportData returns a snapshot and importData of it returns true, and it
\* leaves participantCount, participantNames and the bill list (order, id,
\* whoPaid, amount, notes, participants, dateAdded instant) as they were.
C7_RoundTrip ==
    [][ /\ ret'.op = "exportData" => ~ret'.threw
        /\ (ret'.op = "importData" /\ exported = exportData /\ ret'.data = exported)
           => /\ ret'.value
              /\ participantCount' = participantCount
              /\ participantNames' = participantNames
              /\ bills' = bills ]_vars

(***************************************************************************)
(* The claims about calculateResults, checked under SpecCalc.              *)
(***************************************************************************)
\* C8: for every store that validateInputs accepts, the balances that
\* calculateResults computes sum to zero.
C8_Conservation ==
    (pc # "idle" /\ validateInputs(participantCount, bills).isValid)
    => Sum(results.balances) = Num(0)

\* The store meets the invariants of the data model.
WellFormed ==
    \A i \in 1..Len(bills) :
        /\ bills[i].whoPaid \in 0..(participantCount - 1)
        /\ Len(bills[i].participants) = participantCount

RECURSIVE SumAmounts(_, _)
\* The sum of the amounts of the transfers that satisfy Test, from position from on.
SumAmounts(Test(_), from) ==
    IF from > Len(instructions) THEN 0
    ELSE (IF Test(instructions[from]) THEN instructions[from].amount ELSE 0)
         + SumAmounts(Test, from + 1)

\* What is left of the balance of participant i (1-based) once every transfer is
\* applied: each amount subtracted from its receiver's balance and added to its
\* sender's.
Residual(i) ==
    argBalances[i].v
    - SumAmounts(LAMBDA t : t.to = argNames[i], 1)
    + SumAmounts(LAMBDA t : t.from = argNames[i], 1)

\* C9: for the balances of a valid store, applying the transfers that
\* generatePaymentInstructions returns leaves every balance within 0.01 of zero.
C9_Settlement ==
    (pc = "done" /\ validateInputs(participantCount, bills).isValid /\ WellFormed)
    => \A i \in 1..Len(argBalances) :
          /\ argBalances[i].k = "num"
          /\ Abs(Residual(i)) <= Tolerance

(***************************************************************************)
(* The claims about generatePaymentInstructions, checked under SpecSettle. *)
(***************************************************************************)
\* The participants with balance > 0.01, and those with balance < -0.01.
NumCreditors == Cardinality({i \in 1..Len(argBalances) : argBalances[i].v > Tolerance})
NumDebtors == Cardinality({i \in 1..Len(argBalances) : argBalances[i].v < -Tolerance})

\* C10, as stated: the number of transfers is at most #creditors + #debtors - 1.
C10_Bound ==
    pc = "done" => Len(instructions) <= NumCreditors + NumDebtors - 1

\* C10, amended: at most #creditors + #debtors - 1 transfers when somebody is a
\* creditor or a debtor, and none otherwise; at every point of the loop.
C10_BoundAmended ==
    pc \in {"loop", "done"}
    => Len(instructions) <= (IF NumCreditors + NumDebtors = 0 THEN 0
                             ELSE NumCreditors + NumDebtors - 1)

\* A run that returns three transfers for two creditors and two debtors.
C10_Witness ==
    /\ pc = "done"
    /\ NumCreditors = 2 /\ NumDebtors = 2
    /\ Len(instructions) = 3

\* Whether the iteration of the while loop that starts in this state moves
\* creditorIndex or debtorIndex on.
IterationAdvances ==
    LET paid == IF Pays(PaymentAmount) THEN PaymentAmount ELSE 0
    IN \/ Settled(Remaining(creditors[creditorIndex + 1].amount, paid))
       \/ Settled(Remaining(debtors[debtorIndex + 1].amount, paid))

\* C11: every iteration of the while loop of generatePaymentInstructions
\* advances creditorIndex or debtorIndex, also when an amount that is left
\* equals the 0.01 tolerance exactly; so the loop ends.
C11_LoopAdvances ==
    (pc = "loop" /\ creditorIndex < Len(creditors) /\ debtorIndex < Len(debtors))
    => IterationAdvances

(***************************************************************************)
(* The example scenario, checked under SpecCalc.                           *)
(***************************************************************************)
\* An amount of money given in cents, as a number of the engine.
Cents(c) == Num(c * Scale)

\* The store holds the example scenario: four participants and bills of 100,
\* 30, 40 and 20 paid by participants 0, 1, 2 and 3, each shared by all four.
ExampleScenario ==
    /\ participantCount = 4
    /\ Len(bills) = 4
    /\ \A i \in 1..4 :
          /\ bills[i].whoPaid = i - 1
          /\ bills[i].participants = <<TRUE, TRUE, TRUE, TRUE>>
    /\ <<bills[1].amount, bills[2].amount, bills[3].amount, bills[4].amount>>
          = <<10000, 3000, 4000, 2000>>

\* C12, as stated: for the example scenario calculateResults returns paid = [100, 30, 40,
\* 20], owed = [47.5, 47.5, 47.5, 47.5], balances = [52.5, -17.5, -7.5, -42.5]
\* and total = 190.
C12_Example ==
    (pc # "idle" /\ ExampleScenario)
    => /\ results.totalSpent = <<Cents(10000), Cents(3000), Cents(4000), Cents(2000)>>
       /\ results.totalOwed = <<Cents(4750), Cents(4750), Cents(4750), Cents(4750)>>
       /\ results.balances = <<Cents(5250), Cents(-1750), Cents(-750), Cents(-4250)>>
       /\ results.totalAmount = Cents(19000)

\* C12, amended: as C12 with the balance of participant 3 being 20 - 47.5 =
\* -27.5, so balances = [52.5, -17.5, -7.5, -27.5].
C12_ExampleAmended ==
    (pc # "idle" /\ ExampleScenario)
    => /\ results.totalSpent = <<Cents(10000), Cents(3000), Cents(4000), Cents(2000)>>
       /\ results.totalOwed = <<Cents(4750), Cents(4750), Cents(4750), Cents(4750)>>
       /\ results.balances = <<Cents(5250), Cents(-1750), Cents(-750), Cents(-2750)>>
       /\ results.totalAmount = Cents(19000)

\* calculateResults has returned for the example scenario.
C12_Witness ==
    /\ pc = "done"
    /\ ExampleScenario
    /\ results.billCount = 4
    /\ Len(instructions) > 0

(***************************************************************************)
(* The claims about the store's operations, checked under Spec.            *)
(***************************************************************************)
\* Whether out is bs sorted stably by the key sortBy in the given direction:
\* out is bs permuted, its keys are in order, and bills with equal keys stand
\* in the order they had in bs.
StablySorted(bs, out, names, sortBy, direction) ==
    /\ Len(out) = Len(bs)
    /\ \E p \in Orders(1..Len(bs)) :
          /\ \A i \in 1..Len(bs) : out[i] = bs[p[i]]
          /\ \A i, j \in 1..Len(bs) :
                i < j =>
                   LET ki == SortKey(bs[p[i]], names, sortBy)
                       kj == SortKey(bs[p[j]], names, sortBy)
                   IN /\ IF direction = "asc" THEN ki <= kj ELSE ki >= kj
                      /\ ki = kj => p[i] < p[j]

\* C13: sortBills by whoPaid, amount, notes or date, in either direction,
\* leaves the bills stably sorted by that key.
C13_StableSort ==
    [][ (ret'.op = "sortBills"
         /\ ret'.sortBy \in {"whoPaid", "amount", "notes", "date"}
         /\ ret'.direction \in {"asc", "desc"})
        => StablySorted(bills, bills', participantNames, ret'.sortBy, ret'.direction)
      ]_vars

(***************************************************************************)
(* Change notification: callbacks are subscribed and unsubscribed, and     *)
(* then the store's operations deliver to them.                            *)
(***************************************************************************)
\* The most callbacks subscribed at a time, over all events.
MaxListeners == 3
\* The number of store operations in a run with subscribers.
MaxNotifyOps == 1

\* The callbacks the model subscribes: one that returns and one that throws.
Callbacks == {[id |-> 1, throws |-> FALSE], [id |-> 2, throws |-> TRUE]}
\* The values passed as event: the three events and a name that is none.
EventInputs == EventNames \cup {"other"}

TotalListeners ==
    Len(listeners["dataChanged"]) + Len(listeners["participantChanged"])
    + Len(listeners["billChanged"])

AddEventListener(event, callback) ==
    /\ TotalListeners < MaxListeners
    /\ listeners' = IF event \in EventNames
                    THEN [listeners EXCEPT ![event] = Append(@, callback)]
                    ELSE listeners
    /\ events' = <<>>
    /\ delivered' = <<>>
    /\ raised' = FALSE
    /\ ret' = [op |-> "addEventListener"]
    /\ UNCHANGED pageVars
    /\ UNCHANGED storeVars
    /\ UNCHANGED <<nextId, clock, exported, shared>>
    /\ UNCHANGED engineVars

RemoveEventListener(event, callback) ==
    /\ listeners' = removeEventListener(listeners, event, callback)
    /\ events' = <<>>
    /\ delivered' = <<>>
    /\ raised' = FALSE
    /\ ret' = [op |-> "removeEventListener"]
    /\ UNCHANGED pageVars
    /\ UNCHANGED storeVars
    /\ UNCHANGED <<nextId, clock, exported, shared>>
    /\ UNCHANGED engineVars

NextNotify ==
    \/ \E event \in EventInputs, callback \in Callbacks : AddEventListener(event, callback)
    \/ \E event \in EventInputs, callback \in Callbacks : RemoveEventListener(event, callback)
    \/ clock < MaxNotifyOps /\ Next

SpecNotify == Init /\ [][NextNotify]_vars

(***************************************************************************)
(* The claims about notification, checked under SpecNotify.                *)
(***************************************************************************)
RECURSIVE AllSubscribers(_, _)
\* Every callback subscribed to the events evs, event by event and in
\* subscription order, whether or not it throws.
AllSubscribers(evs, from) ==
    IF from > Len(evs) THEN <<>>
    ELSE [i \in 1..Len(listeners[evs[from]]) |->
             [event |-> evs[from], id |-> listeners[evs[from]][i].id]]
         \o AllSubscribers(evs, from + 1)

\* C14: when a subscribed callback throws during delivery, every other
\* subscriber of the event is still called, the later events of the operation
\* are still delivered, no exception reaches the caller, and the operation
\* returns its success result with its change applied.
C14_SubscriberIsolation ==
    [][ events' # <<>>
        => /\ delivered' = AllSubscribers(events', 1)
           /\ ~raised'
           /\ ret'.op \in {"updateParticipantCount", "updateBill", "removeBill",
                           "moveBill", "importData"} => ret'.value = TRUE
           /\ ret'.op = "addBill" => bills' = Append(bills, ret'.value) ]_vars

\* addBill on a store where a throwing callback is subscribed to billChanged
\* before another one, and a third to dataChanged: all three were called.
C14_Witness ==
    /\ ret.op = "addBill"
    /\ listeners["billChanged"] = <<[id |-> 2, throws |-> TRUE], [id |-> 1, throws |-> FALSE]>>
    /\ listeners["dataChanged"] = <<[id |-> 1, throws |-> FALSE]>>
    /\ delivered = <<[event |-> "billChanged", id |-> 2],
                     [event |-> "billChanged", id |-> 1],
                     [event |-> "dataChanged", id |-> 1]>>
    /\ ~raised
    /\ Len(bills) = 5

(***************************************************************************)
(* C15                                                                     *)
(***************************************************************************)
\* The call just made named a bill that the list did not hold, or was a
\* moveBill to an index outside 0 .. bills.length - 1.
NotFoundCall ==
    /\ ret'.op \in {"updateBill", "removeBill", "moveBill"}
    /\ \/ \A i \in 1..Len(bills) : bills[i].id # ret'.billId
       \/ /\ ret'.op = "moveBill"
          /\ ret'.newIndex \notin 0..(Len(bills) - 1)

\* C15: updateBill, removeBill and moveBill with an id no bill has, and moveBill
\* with newIndex outside [0, bills.length), return false, raise nothing, leave
\* participantCount, participantNames and the bill list unchanged and deliver
\* no notification.
C15_SoftNotFound ==
    [][ NotFoundCall
        => /\ ret'.value = FALSE
           /\ ~raised'
           /\ participantCount' = participantCount
           /\ participantNames' = participantNames
           /\ bills' = bills
           /\ events' = <<>>
           /\ delivered' = <<>> ]_vars

C15_Witness ==
    /\ TotalListeners = MaxListeners
    /\ Len(listeners.billChanged) > 0
    /\ ret.op = "moveBill"
    /\ ret.newIndex = Len(bills)
    /\ \E i \in 1..Len(bills) : bills[i].id = ret.billId
    /\ ret.value = FALSE
    /\ delivered = <<>>

(***************************************************************************)
(* C16                                                                     *)
(***************************************************************************)
\* Record after is record before with exactly the fields of updates replaced.
OnlyNamedFieldsChanged(before, after, updates) ==
    /\ DOMAIN after = (DOMAIN before) \cup (DOMAIN updates)
    /\ \A f \in DOMAIN updates : after[f] = updates[f]
    /\ \A f \in (DOMAIN before) \ (DOMAIN updates) : after[f] = before[f]

\* C16: updateBill(id, updates) on an existing id changes only the fields named
\* in updates on that one record; its other fields, its position, every other
\* bill, participantCount and participantNames are unchanged.
C16_UpdateFrame ==
    [][ (/\ ret'.op = "updateBill"
         /\ \E i \in 1..Len(bills) : bills[i].id = ret'.billId)
        => /\ ret'.value = TRUE
           /\ Len(bills') = Len(bills)
           /\ \E k \in 1..Len(bills) :
                 /\ bills[k].id = ret'.billId
                 /\ OnlyNamedFieldsChanged(bills[k], bills'[k], ret'.updates)
                 /\ \A i \in (1..Len(bills)) \ {k} : bills'[i] = bills[i]
           /\ participantCount' = participantCount
           /\ participantNames' = participantNames ]_vars

C16_Witness ==
    /\ ret.op = "updateBill"
    /\ ret.value = TRUE
    /\ ret.billId = 2
    /\ ret.updates = [notes |-> "taxi"]
    /\ Len(bills) = 4
    /\ bills[2].id = 2
    /\ bills[2].notes = "taxi"
    /\ bills[2].whoPaid = 7

(***************************************************************************)
(* C17                                                                     *)
(***************************************************************************)
\* The sequence s without its k-th element.
Without(s, k) == [i \in 1..(Len(s) - 1) |-> IF i < k THEN s[i] ELSE s[i + 1]]

\* C17: moveBill(id, newIndex) with an existing id and 0 <= newIndex <
\* bills.length leaves the moved bill at position newIndex, keeps the length
\* and the bills, and keeps every other bill in its order relative to the rest.
C17_MoveToIndex ==
    [][ (/\ ret'.op = "moveBill"
         /\ \E i \in 1..Len(bills) : bills[i].id = ret'.billId
         /\ ret'.newIndex \in 0..(Len(bills) - 1))
        => /\ ret'.value = TRUE
           /\ Len(bills') = Len(bills)
           /\ \E k \in 1..Len(bills) :
                 /\ bills[k].id = ret'.billId
                 /\ bills'[ret'.newIndex + 1] = bills[k]
                 /\ Without(bills', ret'.newIndex + 1) = Without(bills, k) ]_vars

C17_Witness ==
    /\ ret.op = "moveBill"
    /\ ret.value = TRUE
    /\ ret.billId = 1
    /\ ret.newIndex = 2
    /\ Len(bills) = 4
    /\ bills[1].id = 2
    /\ bills[2].id = 3
    /\ bills[3].id = 1
    /\ bills[4].id = 4

(***************************************************************************)
(* C18                                                                     *)
(***************************************************************************)
\* Record b carries what partial gives for whoPaid, amount, notes and
\* participants, and the default for each of them that partial omits.
GivenOrDefault(b, partial, count) ==
    /\ b.whoPaid = (IF "whoPaid" \in DOMAIN partial THEN partial.whoPaid ELSE 0)
    /\ b.amount = (IF "amount" \in DOMAIN partial THEN partial.amount ELSE 0)
    /\ b.notes = (IF "notes" \in DOMAIN partial THEN partial.notes ELSE "")
    /\ b.participants = (IF "participants" \in DOMAIN partial
                         THEN partial.participants ELSE [i \in 1..count |-> TRUE])

\* C18: addBill(partial) appends exactly one record at the end and returns it;
\* the existing bills keep their order, the new id differs from every existing
\* id, given fields are taken as given and omitted ones get their defaults.
C18_AddBill ==
    [][ ret'.op = "addBill"
        => /\ bills' = Append(bills, ret'.value)
           /\ \A i \in 1..Len(bills) : bills[i].id # ret'.value.id
           /\ GivenOrDefault(ret'.value, ret'.billData, participantCount) ]_vars

C18_Witness ==
    /\ ret.op = "addBill"
    /\ ret.billData = [amount |-> 3, notes |-> "Taxi"]
    /\ participantCount = 3
    /\ Len(bills) = 5
    /\ bills[5] = ret.value
    /\ bills[5].amount = 3
    /\ bills[5].whoPaid = 0
    /\ bills[5].participants = <<TRUE, TRUE, TRUE>>
    /\ \A i \in 1..4 : bills[i].id # bills[5].id

(***************************************************************************)
(* CalculationEngine.validateInputs on imported snapshots.                 *)
(***************************************************************************)
\* validateInputs reads the store and returns its verdict.
ValidateInputs ==
    /\ ret' = [op |-> "validateInputs", value |-> validateInputs(participantCount, bills)]
    /\ events' = <<>>
    /\ delivered' = <<>>
    /\ raised' = FALSE
    /\ UNCHANGED pageVars
    /\ UNCHANGED storeVars
    /\ UNCHANGED <<nextId, clock, exported, shared, listeners>>
    /\ UNCHANGED engineVars

\* The masks of the snapshots validated.
ValidateMasks(n) ==
    { [i \in 1..n |-> TRUE], [i \in 1..n |-> FALSE], [i \in 1..n |-> i = 1] }

ValidateBillInputs(n) ==
    { [whoPaid |-> 0, amount |-> amount, notes |-> "",
       participants |-> participants, dateAdded |-> toISOString(DefaultDate)] :
          amount \in {-1, 0, 500}, participants \in ValidateMasks(n) }

\* The store after importData of a snapshot that importData accepts.
InitValidate ==
    /\ \E n \in {0, 1, 2, MaxParticipants, MaxParticipants + 1}, m \in 0..MaxCalcBills :
          \E bs \in [1..m -> ValidateBillInputs(n)] :
             LET data == CalcSnapshot(n, bs) IN
             /\ validateImportedData(data)
             /\ ~MapThrows(data.bills.arr)
             /\ participantCount = data.participantCount.val
             /\ participantNames = data.participantNames.arr
             /\ bills = ImportedBills(data.bills.arr)
             /\ isGrouped = ImportedIsGrouped(data)
             /\ ret = [op |-> "importData", data |-> data, value |-> TRUE]
    /\ events = <<"dataChanged">>
    /\ NoListeners
    /\ nextId = 4
    /\ clock = 1
    /\ exported = Null
    /\ shared = <<>>
    /\ NoPage
    /\ EngineIdle

NextValidate ==
    \/ ValidateInputs
    \/ \E billId \in BillIdInputs : RemoveBill(billId)

SpecValidate == InitValidate /\ [][NextValidate]_vars

(***************************************************************************)
(* C19                                                                     *)
(***************************************************************************)
\* The four conditions on the store, stated on the store itself.
C19_Conditions ==
    /\ participantCount >= 2
    /\ Len(bills) >= 1
    /\ \A i \in 1..Len(bills) :
          \E j \in 1..Len(bills[i].participants) : bills[i].participants[j] = TRUE
    /\ \A i \in 1..Len(bills) : ~(bills[i].amount < 0)

\* C19: validateInputs reports valid exactly when participantCount >= 2, there
\* is a bill, every bill has a true entry in its mask and no bill has a
\* negative amount; a count above 20 adds a warning and never makes the result
\* invalid; validateInputs returns and changes nothing.
C19_ValidateInputs ==
    [][ ret'.op = "validateInputs"
        => /\ ret'.value.isValid <=> C19_Conditions
           /\ (Len(ret'.value.errors) = 0) <=> C19_Conditions
           /\ participantCount > 20 => Len(ret'.value.warnings) > 0
           /\ UNCHANGED storeVars ]_vars

C19_Witness ==
    /\ ret.op = "validateInputs"
    /\ participantCount = 21
    /\ Len(bills) = 2
    /\ ret.value.isValid
    /\ Len(ret.value.warnings) = 1

(***************************************************************************)
(* C20                                                                     *)
(***************************************************************************)
\* name.trim() === '', for the names the model passes.
IsBlank(name) == name \in {"", " "}

\* C20: updateParticipantName(index, name) changes nothing and notifies nobody
\* when index is outside [0, participantCount); for an index in range an empty
\* or blank name is replaced by the placeholder "Participant {index+1}", so
\* that no stored name is empty or blank.
C20_RenameParticipant ==
    [][ ret'.op = "updateParticipantName"
        => IF ret'.index \in 0..(participantCount - 1)
           THEN /\ participantNames'[ret'.index + 1] =
                      (IF IsBlank(ret'.name) THEN Placeholder(ret'.index + 1)
                       ELSE ret'.name)
                /\ ~IsBlank(participantNames'[ret'.index + 1])
           ELSE /\ UNCHANGED storeVars
                /\ events' = <<>> ]_vars

(***************************************************************************)
(* CalculationEngine: the calls of one page session.                       *)
(*                                                                         *)
(* calculateResults returns its object; calculateSummary and               *)
(* getParticipantBreakdown are given an object calculateResults returned.  *)
(***************************************************************************)
\* The object calculateResults returns.
ReturnedResults ==
    [totalSpent |-> results.totalSpent,
     totalOwed |-> results.totalOwed,
     balances |-> results.balances,
     totalAmount |-> results.totalAmount,
     participantCount |-> results.participantCount,
     participantNames |-> argNames,
     paymentInstructions |-> instructions,
     billCount |-> results.billCount]

\* return { totalSpent, .., billCount }
ReturnResults ==
    /\ pc = "done"
    /\ pc' = "idle"
    /\ ret' = [op |-> "calculateResults", value |-> ReturnedResults]
    /\ UNCHANGED <<results, argBalances, argNames, creditors, debtors, creditorIndex,
                   debtorIndex, instructions>>
    /\ UNCHANGED pageVars
    /\ UNCHANGED storeVars
    /\ UNCHANGED <<events, nextId, clock, exported, shared, listeners, delivered, raised>>

\* The results object most recently returned, which the page passes on.
HasResults == ret.op \in {"calculateResults", "calculateSummary", "getParticipantBreakdown"}
LastResults == IF ret.op = "calculateResults" THEN ret.value ELSE ret.results

\* Math.max(...array) and Math.min(...array): a hole spreads as undefined,
\* and undefined or NaN among the arguments gives NaN.
MathMax(array) ==
    IF \E i \in 1..Len(array) : array[i].k # "num" THEN NaN
    ELSE IF Len(array) = 0 THEN [k |-> "-inf", v |-> 0]
    ELSE Num(CHOOSE v \in {array[i].v : i \in 1..Len(array)} :
                \A j \in 1..Len(array) : array[j].v <= v)

MathMin(array) ==
    IF \E i \in 1..Len(array) : array[i].k # "num" THEN NaN
    ELSE IF Len(array) = 0 THEN [k |-> "+inf", v |-> 0]
    ELSE Num(CHOOSE v \in {array[i].v : i \in 1..Len(array)} :
                \A j \in 1..Len(array) : array[j].v >= v)

\* Math.abs(b) < 0.01: false for NaN and undefined.
IsBalanced(b) == b.k = "num" /\ Abs(b.v) < Tolerance

\* totalAmount / participantCount, for a participantCount in 1..MaxShare.
Average(totalAmount, count) ==
    IF totalAmount.k = "num" THEN Num(totalAmount.v \div count) ELSE NaN

calculateSummary(res) ==
    [totalAmount |-> res.totalAmount,
     averagePerPerson |-> IF res.participantCount > 0
                          THEN Average(res.totalAmount, res.participantCount)
                          ELSE Num(0),
     maxBalance |-> MathMax(res.balances),
     minBalance |-> MathMin(res.balances),
     balancedParticipants |->
         Cardinality({i \in 1..Len(res.balances) :
                         res.balances[i].k # "hole" /\ IsBalanced(res.balances[i])}),
     participantCount |-> res.participantCount,
     billCount |-> res.billCount]

CalculateSummary ==
    /\ pc = "idle"
    /\ HasResults
    /\ ret' = [op |-> "calculateSummary", results |-> LastResults,
               value |-> calculateSummary(LastResults)]
    /\ UNCHANGED pageVars
    /\ UNCHANGED storeVars
    /\ UNCHANGED <<events, nextId, clock, exported, shared, listeners, delivered, raised>>
    /\ UNCHANGED engineVars

\* bills.filter(keep), as the 0-based positions kept.
getParticipantBreakdown(participantIndex, res) ==
    [spent |-> At(res.totalSpent, participantIndex),
     owed |-> At(res.totalOwed, participantIndex),
     balance |-> At(res.balances, participantIndex),
     billsPaid |-> SelectSeq(bills, LAMBDA bill : bill.whoPaid = participantIndex),
     billsInvolved |->
         SelectSeq(bills, LAMBDA bill : /\ participantIndex < Len(bill.participants)
                                        /\ bill.participants[participantIndex + 1]),
     paymentsTo |->
         SelectSeq(res.paymentInstructions,
                   LAMBDA p : p.to = NameAt(participantNames, participantIndex)),
     paymentsFrom |->
         SelectSeq(res.paymentInstructions,
                   LAMBDA p : p.from = NameAt(participantNames, participantIndex)),
     isBalanced |-> IsBalanced(At(res.balances, participantIndex))]

\* The values the model passes as participantIndex.
BreakdownIndexInputs == {0, participantCount - 1, participantCount}

GetParticipantBreakdown(participantIndex) ==
    /\ pc = "idle"
    /\ HasResults
    /\ ret' = [op |-> "getParticipantBreakdown", results |-> LastResults,
               participantIndex |-> participantIndex,
               value |-> getParticipantBreakdown(participantIndex, LastResults)]
    /\ UNCHANGED pageVars
    /\ UNCHANGED storeVars
    /\ UNCHANGED <<events, nextId, clock, exported, shared, listeners, delivered, raised>>
    /\ UNCHANGED engineVars

\* The bills of the snapshots the session starts from.
EngineBillInputs(n) ==
    { [whoPaid |-> whoPaid, amount |-> amount, notes |-> "",
       participants |-> participants, dateAdded |-> toISOString(DefaultDate)] :
          whoPaid \in {0, n - 1}, amount \in {-1, 0, 6},
          participants \in ValidateMasks(n) }

InitEngine ==
    /\ \E n \in 2..MaxShare, m \in 0..MaxCalcBills :
          \E bs \in [1..m -> EngineBillInputs(n)] :
             LET data == CalcSnapshot(n, bs) IN
             /\ validateImportedData(data)
             /\ ~MapThrows(data.bills.arr)
             /\ participantCount = data.participantCount.val
             /\ participantNames = data.participantNames.arr
             /\ bills = ImportedBills(data.bills.arr)
             /\ isGrouped = ImportedIsGrouped(data)
             /\ ret = [op |-> "importData", data |-> data, value |-> TRUE]
    /\ events = <<"dataChanged">>
    /\ NoListeners
    /\ nextId = 4
    /\ clock = 1
    /\ exported = Null
    /\ shared = <<>>
    /\ NoPage
    /\ EngineIdle

NextEngine ==
    \/ CalculateResults
    \/ StartSettle
    \/ SettleStep
    \/ SettleReturn
    \/ ReturnResults
    \/ pc = "idle" /\ ValidateInputs
    \/ CalculateSummary
    \/ \E participantIndex \in BreakdownIndexInputs : GetParticipantBreakdown(participantIndex)
    \/ pc = "idle" /\ \E billId \in BillIdInputs : RemoveBill(billId)

SpecEngine == InitEngine /\ [][NextEngine]_vars

(***************************************************************************)
(* C21                                                                     *)
(***************************************************************************)
\* The step is a step of the engine: no store operation was called.
EngineStep == clock' = clock

\* C21: calculateResults, generatePaymentInstructions, validateInputs,
\* calculateSummary and getParticipantBreakdown leave participantCount,
\* participantNames and every bill unchanged and deliver no notification, and
\* two calculateResults calls on the same store state return equal results.
C21_EngineReadOnly ==
    [][ EngineStep
        => /\ participantCount' = participantCount
           /\ participantNames' = participantNames
           /\ bills' = bills
           /\ events' # events => events' = <<>>
           /\ delivered' = <<>>
           /\ (pc = "done" /\ pc' = "idle" /\ HasResults)
                 => ret'.value = LastResults ]_vars

C21_Witness ==
    /\ pc = "done"
    /\ HasResults
    /\ ret.op = "getParticipantBreakdown"
    /\ Len(LastResults.paymentInstructions) > 0
    /\ LastResults.paymentInstructions = instructions
    /\ Len(bills) = 2

(***************************************************************************)
(* C22                                                                     *)
(***************************************************************************)
\* The bills that have a positive amount and a true entry in their mask.
Contributing(bs) ==
    SelectSeq(bs, LAMBDA bill : bill.amount > 0 /\ CountTrue(bill.participants) > 0)

\* C22: a bill with amount <= 0 or with no true entry in its mask contributes
\* nothing: paid, owed, balances and totalAmount are what they would be with
\* those bills absent.
C22_NoContribution ==
    pc \in {"settle", "loop", "done"}
    => LET without == Totals(participantCount, Contributing(bills))
       IN /\ results.totalSpent = without.totalSpent
          /\ results.totalOwed = without.totalOwed
          /\ results.balances = without.balances
          /\ results.totalAmount = without.totalAmount

(***************************************************************************)
(* C23                                                                     *)
(***************************************************************************)
\* C23: in every reachable store state, after any addBill, updateBill and
\* importData calls, the bills have pairwise distinct ids.
C23_UniqueIds ==
    \A i, j \in 1..Len(bills) : i # j => bills[i].id # bills[j].id

(***************************************************************************)
(* C26                                                                     *)
(***************************************************************************)
\* The sum of the amounts of the transfers ts[from..] whose field (from or to)
\* is name.
RECURSIVE TransferTotal(_, _, _, _)
TransferTotal(ts, field, name, from) ==
    IF from > Len(ts) THEN 0
    ELSE (IF ts[from][field] = name THEN ts[from].amount ELSE 0)
         + TransferTotal(ts, field, name, from + 1)

\* C26: every transfer has amount > 0.01, goes from a participant with balance
\* < -0.01 to one with balance > 0.01, and nobody is overpaid: what a debtor
\* sends sums to at most |balance|, what a creditor receives to at most its
\* balance.
C26_Transfers ==
    pc \in {"loop", "done"}
    => /\ \A t \in 1..Len(instructions) :
             /\ instructions[t].amount > Tolerance
             /\ \E i \in 1..Len(argBalances) :
                   /\ argNames[i] = instructions[t].from
                   /\ argBalances[i].v < -Tolerance
             /\ \E j \in 1..Len(argBalances) :
                   /\ argNames[j] = instructions[t].to
                   /\ argBalances[j].v > Tolerance
             /\ instructions[t].from # instructions[t].to
       /\ \A i \in 1..Len(argBalances) :
             /\ TransferTotal(instructions, "from", argNames[i], 1)
                   <= (IF argBalances[i].v < -Tolerance THEN -argBalances[i].v ELSE 0)
             /\ TransferTotal(instructions, "to", argNames[i], 1)
                   <= (IF argBalances[i].v > Tolerance THEN argBalances[i].v ELSE 0)

\* A run that returns with a creditor paid in full by two debtors, the second
\* of whom still owes.
C26_Witness ==
    /\ pc = "done"
    /\ Len(instructions) = 2
    /\ instructions[1].to = instructions[2].to
    /\ instructions[1].from # instructions[2].from
    /\ \E i \in 1..Len(argBalances) :
          /\ argNames[i] = instructions[2].from
          /\ TransferTotal(instructions, "from", argNames[i], 1) < -argBalances[i].v
    /\ \E j \in 1..Len(argBalances) :
          /\ argNames[j] = instructions[1].to
          /\ TransferTotal(instructions, "to", argNames[j], 1) = argBalances[j].v

(***************************************************************************)
(* C30                                                                     *)
(***************************************************************************)
\* The operation notified event, and notified dataChanged only after it.
NotifiedBeforeDataChanged(evs, event) ==
    \E i \in 1..Len(evs) :
       /\ evs[i] = event
       /\ \A j \in 1..i : evs[j] # "dataChanged"
       /\ \E j \in (i + 1)..Len(evs) : evs[j] = "dataChanged"

\* C30: an operation that changes participantCount or participantNames
\* notifies participantChanged, one that changes the bill list notifies
\* billChanged, each before the dataChanged of the same operation; importData
\* included.
C30_NotificationClasses ==
    [][ /\ (participantCount' # participantCount \/ participantNames' # participantNames)
           => NotifiedBeforeDataChanged(events', "participantChanged")
        /\ bills' # bills
           => NotifiedBeforeDataChanged(events', "billChanged") ]_vars

(***************************************************************************)
(* The store with subscribers that unsubscribe while they are notified.    *)
(***************************************************************************)
\* The callbacks subscribed: one that only returns, one that unsubscribes
\* itself from dataChanged, one that unsubscribes callback 1 from dataChanged.
ReentrantCallbacks ==
    { [id |-> 1, throws |-> FALSE],
      [id |-> 2, throws |-> FALSE, removes |-> [event |-> "dataChanged", id |-> 2]],
      [id |-> 3, throws |-> FALSE, removes |-> [event |-> "dataChanged", id |-> 1]] }

\* No callback is subscribed twice to an event.
NotSubscribed(event, callback) ==
    event \in EventNames => \A i \in 1..Len(listeners[event]) : listeners[event][i] # callback

NextReentrant ==
    \/ \E event \in EventNames, callback \in ReentrantCallbacks :
          NotSubscribed(event, callback) /\ AddEventListener(event, callback)
    \/ \E event \in EventNames, callback \in ReentrantCallbacks :
          RemoveEventListener(event, callback)
    \/ clock < MaxNotifyOps /\ Next

SpecReentrant == Init /\ [][NextReentrant]_vars

(***************************************************************************)
(* C27                                                                     *)
(***************************************************************************)
\* The listeners after every callback of cbs[from..] has been called.
RECURSIVE AfterCalls(_, _, _)
AfterCalls(ls, cbs, from) ==
    IF from > Len(cbs) THEN ls
    ELSE AfterCalls(Call(ls, cbs[from]), cbs, from + 1)

\* The calls the notifications evs[from..] make when each goes once to every
\* callback subscribed to its event at the moment its delivery starts.
RECURSIVE ToAllSubscribedAtStart(_, _, _)
ToAllSubscribedAtStart(ls, evs, from) ==
    IF from > Len(evs) THEN <<>>
    ELSE [i \in 1..Len(ls[evs[from]]) |-> [event |-> evs[from], id |-> ls[evs[from]][i].id]]
         \o ToAllSubscribedAtStart(AfterCalls(ls, ls[evs[from]], 1), evs, from + 1)

\* C27: each notification goes exactly once, in subscription order, to every
\* callback subscribed to its event when its delivery starts, also when a
\* callback calls removeEventListener during the delivery.
C27_DeliveryUnderRemoval ==
    [][ events' # <<>> => delivered' = ToAllSubscribedAtStart(listeners, events', 1) ]_vars

(***************************************************************************)
(* C29                                                                     *)
(***************************************************************************)
\* C29: a snapshot exportData returned is not changed by a later operation of
\* the store, so each of its masks keeps the length of its participantCount;
\* the same holds for a data object that importData was given.
C29_SnapshotIndependent ==
    [][ (exported # Null /\ ret'.op # "exportData")
        => /\ exported' = exported
           /\ \A k \in 1..Len(exported'.bills.arr) :
                 Len(exported.bills.arr[k].participants) = exported.participantCount.val
                    => Len(exported'.bills.arr[k].participants)
                          = exported'.participantCount.val ]_vars


(***************************************************************************)
(* The page: UIManager on the store, and BillSplitterApp.reset.  A handler *)
(* of the page runs to its end before the next one starts, so the store    *)
(* operations, the timers and reset wait for pc = "idle".                  *)
(***************************************************************************)
\* Whether UIManager.initialize() has rendered the page.
Rendered == billsTable.headers # <<>>

\* calculateAndDisplayResults on a store, up to the call of
\* generatePaymentInstructions; on a store validateInputs rejects it ends in
\* displayValidationErrors, which writes the errors into #summary.
CalculateAndDisplayResults(count, names, bs) ==
    /\ IF validateInputs(count, bs).isValid
       THEN /\ results' = Totals(count, bs)
            /\ argBalances' = Totals(count, bs).balances
            /\ argNames' = names
            /\ pc' = "settle"
            /\ UNCHANGED resultsSection
       ELSE /\ resultsSection' = [resultsSection EXCEPT
                                     !.summary = [errors |-> validateInputs(count, bs).errors]]
            /\ UNCHANGED <<pc, results, argBalances, argNames>>
    /\ UNCHANGED <<creditors, debtors, creditorIndex, debtorIndex, instructions>>

\* displayResults(results): updateSummary and updateDetailedResults.
DisplayResults ==
    /\ pc = "done"
    /\ pc' = "idle"
    /\ resultsSection' =
          [summary |-> calculateSummary(ReturnedResults),
           cards |-> [i \in 1..ReturnedResults.participantCount |->
                        [name |-> ReturnedResults.participantNames[i],
                         breakdown |-> getParticipantBreakdown(i - 1, ReturnedResults)]]]
    /\ UNCHANGED <<results, argBalances, argNames, creditors, debtors, creditorIndex,
                   debtorIndex, instructions>>
    /\ UNCHANGED <<billsTable, timers, now>>
    /\ UNCHANGED storeVars
    /\ UNCHANGED callVars

\* new UIManager(..) and initialize(): subscribe the callbacks, render the
\* table, and calculateAndDisplayResults.
Initialize ==
    /\ ~Rendered
    /\ listeners' = [event \in EventNames |-> Append(listeners[event], UiCallbacks[event])]
    /\ billsTable' = [headers |-> Headers(participantNames, participantCount),
                      rows |-> bills]
    /\ CalculateAndDisplayResults(participantCount, participantNames, bills)
    /\ UNCHANGED <<timers, now>>
    /\ UNCHANGED storeVars
    /\ UNCHANGED <<events, ret, nextId, clock, exported, shared, delivered, raised>>

\* The timer of a debounced function is due: its later() runs
\* calculateAndDisplayResults.
FireTimer ==
    /\ pc = "idle"
    /\ timers # <<>> /\ Head(timers) <= now
    /\ timers' = Tail(timers)
    /\ CalculateAndDisplayResults(participantCount, participantNames, bills)
    /\ UNCHANGED <<billsTable, now>>
    /\ UNCHANGED storeVars
    /\ UNCHANGED callVars

\* Time passes, a third of the debounce wait at a time, up to the next timer
\* due (with no timer pending, time is not observed).
Advance ==
    /\ pc = "idle"
    /\ timers # <<>> /\ now + DebounceWait \div 3 <= Head(timers)
    /\ now' = now + DebounceWait \div 3
    /\ UNCHANGED <<billsTable, resultsSection, timers>>
    /\ UNCHANGED storeVars
    /\ UNCHANGED callVars
    /\ UNCHANGED engineVars

\* BillSplitterApp.reset(), confirmed: a new DataManager (default data, ids of
\* its own, no listeners) takes the place of the store; the page renders its
\* names and table from it and runs calculateAndDisplayResults.
Reset ==
    /\ pc = "idle"
    /\ Rendered
    /\ clock < MaxOps
    /\ participantCount' = 4
    /\ participantNames' = <<"Alice", "Bob", "Charlie", "Diana">>
    /\ bills' = [k \in 1..Len(createDefaultBills) |->
                    [createDefaultBills[k] EXCEPT !.id = nextId + k]]
    /\ isGrouped' = FALSE
    /\ nextId' = nextId + Len(createDefaultBills)
    /\ listeners' = [event \in EventNames |-> <<>>]
    /\ events' = <<>>
    /\ delivered' = <<>>
    /\ raised' = FALSE
    /\ ret' = [op |-> "reset"]
    /\ clock' = clock + 1
    /\ shared' = [k \in 1..Len(shared) |-> 0]
    /\ UNCHANGED exported
    /\ billsTable' = [headers |-> Headers(participantNames', participantCount'),
                      rows |-> bills']
    /\ CalculateAndDisplayResults(participantCount', participantNames', bills')
    /\ UNCHANGED <<timers, now>>

\* The values the page's inputs pass as updates.
PageUpdatesInputs ==
    << [amount |-> -500], [amount |-> 2500], [notes |-> "taxi"], [whoPaid |-> 1] >>

NextPage ==
    \/ Initialize
    \/ StartSettle
    \/ SettleStep
    \/ SettleReturn
    \/ DisplayResults
    \/ FireTimer
    \/ Advance
    \/ Reset
    \/ pc = "idle" /\ Rendered /\ \E index \in 0..(participantCount - 1), name \in NameInputs :
                                     UpdateParticipantName(index, name)
    \/ pc = "idle" /\ Rendered /\ AddBill(EmptyObject)
    \/ pc = "idle" /\ Rendered /\ \E i \in 1..Len(bills), u \in 1..Len(PageUpdatesInputs) :
                                     UpdateBill(bills[i].id, PageUpdatesInputs[u])
    \/ pc = "idle" /\ Rendered /\ \E i \in 1..Len(bills) : RemoveBill(bills[i].id)

SpecPage == Init /\ [][NextPage]_vars

\* C24: validation errors block the results display: while the page shows the
\* list of validation errors, no result card of an earlier computation is
\* displayed.
C24_ErrorsBlockResults ==
    "errors" \in DOMAIN resultsSection.summary => resultsSection.cards = <<>>

\* C25: recomputation is debounced: when a timer runs calculateAndDisplayResults,
\* that run is the one run of its burst, 300 ms after the last dataChanged
\* notification: no timer of a notification less than 300 ms old is still
\* pending.
C25_Debounced ==
    [][ Len(timers') < Len(timers)
        => \A k \in 1..Len(timers') : timers'[k] >= now + DebounceWait ]_vars

\* Whether the operation of this step has notified event.
Notified(event) == \E i \in 1..Len(events') : events'[i] = event

\* C28: the page stays wired to the store, after reset() as before it: every
\* store operation on the rendered page that notifies billChanged leaves the
\* rows of the table showing the bills, every one that notifies
\* participantChanged leaves the headers showing the participants, and every
\* one that notifies dataChanged sets a timer for a recomputation.
C28_WiredAfterReset ==
    [][ (Rendered /\ clock' # clock /\ ret'.op # "reset")
        => /\ Notified("billChanged") => billsTable'.rows = bills'
           /\ Notified("participantChanged")
                 => billsTable'.headers = Headers(participantNames', participantCount')
           /\ Notified("dataChanged") => Len(timers') > Len(timers) ]_vars

====
